---- MODULE Spec2Model ----
(***************************************************************************)
(* Blackboard-coordinated fumigation simulation (agentes-backend).         *)
(*                                                                         *)
(* One tick of FumigationModel.step is: the control cycle               *)
(* (ControlComponent.execute_cycle: the Knowledge Sources chosen at the    *)
(* start of the cycle, by descending priority), then one step of every     *)
(* agent in list order (perceive, execute, report), then the runner's      *)
(* termination test.  The KnowledgeBase is the shared state.               *)
(*                                                                         *)
(* Time: the runner sleeps step_delay = 0.5 s after each tick, and the     *)
(* tick's own work takes a positive time, so the wall clock read by        *)
(* datetime.now() during tick n is modelled as n (unit: one tick).         *)
(* Task ids (uuid4 strings in the code) are the creation index of the      *)
(* task; agent ids are 1..n (agentpy numbers a model's agents from 1).     *)
(***************************************************************************)
EXTENDS Integers, Naturals, Sequences, FiniteSets, TLC

\* ------------------------------------------------------------------------
\* Tiles (world.world_generator.TileType)
\* ------------------------------------------------------------------------
IMPASSABLE == 0
ROAD == 1
FIELD == 2
BARN == 3

\* Absent values: Python None for a position, a task id, an agent id, a time.
NoPos == <<-1, -1>>
NoTask == 0
NoAgent == 0
NoTime == -1

\* ------------------------------------------------------------------------
\* Worlds the simulation is started on.  grid[z+1][x+1] is the tile at (x,z),
\* infestation_grid likewise; num_fumigators is the model parameter, and
\* num_scouts says whether a ScoutAgent reports discoveries to the blackboard.
\* ------------------------------------------------------------------------
Worlds ==
  << \* 1: one barn, a road of three cells, one field of infestation 50
     [ grid |-> << <<BARN, ROAD, ROAD, ROAD, FIELD>> >>,
       infestation_grid |-> << <<0, 0, 0, 0, 50>> >>,
       num_fumigators |-> 1, num_scouts |-> 1,
       scout_cells |-> {<<x, 0>> : x \in 0..4} ],
     \* 2: two barns in a corridor, a field behind each of them
     [ grid |-> << <<FIELD, BARN, ROAD, ROAD, BARN, FIELD>> >>,
       infestation_grid |-> << <<60, 0, 0, 0, 0, 40>> >>,
       num_fumigators |-> 2, num_scouts |-> 0, scout_cells |-> {} ],
     \* 3: a field that no path reaches
     [ grid |-> << <<BARN, ROAD, IMPASSABLE, FIELD>> >>,
       infestation_grid |-> << <<0, 0, 0, 50>> >>,
       num_fumigators |-> 1, num_scouts |-> 0, scout_cells |-> {} ],
     \* 4: ten fields of infestation 100: more than one tank of pesticide
     [ grid |-> << <<BARN, FIELD, FIELD, FIELD, FIELD, FIELD, FIELD, FIELD, FIELD,
                     FIELD, FIELD>> >>,
       infestation_grid |-> << <<0, 100, 100, 100, 100, 100, 100, 100, 100, 100, 100>> >>,
       num_fumigators |-> 1, num_scouts |-> 0, scout_cells |-> {} ],
     \* 5: ten fields of infestation 95: the tank runs low before the last one
     [ grid |-> << <<BARN, FIELD, FIELD, FIELD, FIELD, FIELD, FIELD, FIELD, FIELD,
                     FIELD, FIELD>> >>,
       infestation_grid |-> << <<0, 95, 95, 95, 95, 95, 95, 95, 95, 95, 95>> >>,
       num_fumigators |-> 1, num_scouts |-> 0, scout_cells |-> {} ],
     \* 6: two agents whose routes cross between the two barns
     [ grid |-> << <<FIELD, BARN, FIELD, BARN, FIELD, FIELD>> >>,
       infestation_grid |-> << <<50, 0, 50, 0, 50, 100>> >>,
       num_fumigators |-> 2, num_scouts |-> 0, scout_cells |-> {} ],
     \* 7: nine fields of 100 and one of 15: the agent ends idle with 85 left
     [ grid |-> << <<BARN, FIELD, FIELD, FIELD, FIELD, FIELD, FIELD, FIELD, FIELD,
                     FIELD, FIELD>> >>,
       infestation_grid |-> << <<0, 100, 100, 100, 100, 100, 100, 100, 100, 100, 15>> >>,
       num_fumigators |-> 1, num_scouts |-> 0, scout_cells |-> {} ],
     \* 8: two agents that keep blocking each other: the weight of the field
     \* next to the barns reaches the maximum
     [ grid |-> << <<FIELD, FIELD, FIELD, BARN, BARN, FIELD, FIELD, FIELD, FIELD>> >>,
       infestation_grid |-> << <<10, 100, 100, 0, 0, 10, 10, 50, 100>> >>,
       num_fumigators |-> 2, num_scouts |-> 0, scout_cells |-> {} ],
     \* 9: the agent is left with 10 of pesticide next to the last field, and
     \* the scout at the other end reports a field of infestation 5
     [ grid |-> << <<FIELD, BARN, FIELD, FIELD, FIELD, FIELD, FIELD, FIELD, FIELD, FIELD,
                     FIELD, FIELD, FIELD, FIELD, FIELD>> >>,
       infestation_grid |-> << <<5, 0, 100, 100, 100, 100, 100, 100, 100, 100,
                                 40, 80, 40, 20, 10>> >>,
       num_fumigators |-> 1, num_scouts |-> 1, scout_cells |-> {<<0, 0>>} ],
     \* 10: the agent is left with 10 of pesticide at the far end of the row,
     \* next to the second barn
     [ grid |-> << <<BARN, FIELD, FIELD, FIELD, FIELD, FIELD, FIELD, FIELD, FIELD,
                     FIELD, FIELD, FIELD, FIELD, FIELD, BARN>> >>,
       infestation_grid |-> << <<0, 100, 100, 100, 100, 100, 100, 100, 100,
                                 40, 80, 40, 20, 10, 0>> >>,
       num_fumigators |-> 1, num_scouts |-> 0, scout_cells |-> {} ],
     \* 11: three rows: a road and a row of fields lead to the same fields,
     \* and the field in the corner is cut off
     [ grid |-> << <<BARN, ROAD, IMPASSABLE, FIELD>>,
                   <<FIELD, ROAD, ROAD, IMPASSABLE>>,
                   <<FIELD, FIELD, FIELD, FIELD>> >>,
       infestation_grid |-> << <<0, 0, 0, 30>>,
                               <<20, 0, 0, 0>>,
                               <<50, 0, 60, 100>> >>,
       num_fumigators |-> 1, num_scouts |-> 0, scout_cells |-> {} ],
     \* 12: two agents, and the route of one crosses the field the other is sent to
     [ grid |-> << <<BARN, FIELD, ROAD, BARN, FIELD>>,
                   <<FIELD, IMPASSABLE, FIELD, IMPASSABLE, FIELD>> >>,
       infestation_grid |-> << <<0, 10, 0, 0, 100>>, <<50, 0, 60, 0, 100>> >>,
       num_fumigators |-> 2, num_scouts |-> 0, scout_cells |-> {} ],
     \* 13: a row holding more than one tank, so that an agent is sent to refill
     \*     while the other agent stands between it and the barn
     [ grid |-> << <<BARN, FIELD, FIELD, FIELD, FIELD, FIELD, FIELD, FIELD,
                     FIELD, FIELD, FIELD, FIELD, FIELD>> >>,
       infestation_grid |-> << <<0, 95, 60, 100, 60, 100, 60, 95, 100, 60, 100, 60, 95>> >>,
       num_fumigators |-> 2, num_scouts |-> 0, scout_cells |-> {} ],
     \* 14: more than one tank of work, and an impassable cell next to the corner
     \*     from which the agent is sent back to the barn
     [ grid |-> << <<FIELD, IMPASSABLE, FIELD, FIELD, FIELD, FIELD, FIELD, BARN, FIELD>>,
                   <<FIELD, FIELD, FIELD, FIELD, IMPASSABLE, FIELD, FIELD, IMPASSABLE, FIELD>> >>,
       infestation_grid |-> << <<60, 0, 60, 60, 100, 95, 60, 0, 100>>,
                                <<100, 60, 95, 100, 0, 100, 100, 0, 95>> >>,
       num_fumigators |-> 1, num_scouts |-> 0, scout_cells |-> {} ]
  >>

\* ------------------------------------------------------------------------
\* Geometry of a world
\* ------------------------------------------------------------------------
Width(w) == Len(Worlds[w].grid[1])
Height(w) == Len(Worlds[w].grid)
InBounds(w, p) == p[1] >= 0 /\ p[1] < Width(w) /\ p[2] >= 0 /\ p[2] < Height(w)
Tile(w, p) == Worlds[w].grid[p[2] + 1][p[1] + 1]
Cells(w) == {<<x, z>> : x \in 0..(Width(w) - 1), z \in 0..(Height(w) - 1)}
Abs(n) == IF n < 0 THEN -n ELSE n
Max(a, b) == IF a > b THEN a ELSE b

\* Cells in the order of "for z in range(height): for x in range(width)".
ScanOrder(w) ==
  [k \in 1..(Width(w) * Height(w)) |-> <<(k - 1) % Width(w), (k - 1) \div Width(w)>>]

\* A list comprehension with a condition.
Filter(s, Test(_)) == SelectSeq(s, Test)

\* A local variable: v is computed once and bound to the parameter of F.
With(v, F(_)) == CHOOSE r \in {F(y) : y \in {v}} : TRUE

\* s[-limit:] of a Python list.
LastN(s, limit) ==
  IF Len(s) <= limit THEN s ELSE SubSeq(s, Len(s) - limit + 1, Len(s))

\* WorldState.barn_positions: the BARN cells in scan order.
barn_positions(w) == Filter(ScanOrder(w), LAMBDA p : Tile(w, p) = BARN)

\* ------------------------------------------------------------------------
\* KnowledgeBase: the mutators, as functions of the whole program state M.
\* M is the record of all the variables below (see Pack).
\* ------------------------------------------------------------------------
max_events == 1000

\* datetime.now() during the current tick.
Now(M) == M.total_steps

Event(type, agent_id, task_id, position, level) ==
  [event_type |-> type, agent_id |-> agent_id, task_id |-> task_id,
   position |-> position, infestation |-> level, timestamp |-> NoTime]

\* KnowledgeBase._emit_event: the event is stamped with datetime.now() and
\* appended, and the oldest is dropped above _max_events.
emit_event(M, e) ==
  LET es == Append(M.events, [e EXCEPT !.timestamp = Now(M)])
  IN [M EXCEPT !.events = IF Len(es) > max_events THEN Tail(es) ELSE es]

\* "for key, value in updates.items(): if hasattr(obj, key): setattr(...)"
SetAttrs(obj, updates) ==
  [f \in DOMAIN obj |-> IF f \in DOMAIN updates THEN updates[f] ELSE obj[f]]

update_agent(M, agent_id, updates) ==
  IF agent_id \notin DOMAIN M.agents THEN M
  ELSE
    LET M1 == [M EXCEPT !.agents[agent_id] = SetAttrs(@, updates)]
        M2 == IF "position" \in DOMAIN updates
              THEN emit_event(M1, Event("agent_moved", agent_id, NoTask, updates.position, 0))
              ELSE M1
    IN IF "status" \in DOMAIN updates /\ updates.status = "idle"
       THEN emit_event(M2, Event("agent_idle", agent_id, NoTask, NoPos, 0))
       ELSE M2

create_task(M, task_state) ==
  LET M1 == [M EXCEPT !.tasks = Append(@, task_state)]
  IN emit_event(M1, Event("task_created", NoAgent, Len(M1.tasks), task_state.position,
                          task_state.infestation_level))

update_task(M, task_id, updates) ==
  IF task_id \notin DOMAIN M.tasks THEN M
  ELSE
    LET old_status == M.tasks[task_id].status
        M1 == [M EXCEPT !.tasks[task_id] = SetAttrs(@, updates)]
        task == M1.tasks[task_id]
    IN IF "status" \in DOMAIN updates /\ updates.status # old_status
          /\ updates.status \in {"assigned", "completed", "failed"}
       THEN emit_event(M1, Event(CASE updates.status = "assigned" -> "task_assigned"
                                   [] updates.status = "completed" -> "task_completed"
                                   [] OTHER -> "task_failed",
                                 task.assigned_agent_id, task_id, NoPos, 0))
       ELSE M1

\* get_recent_events(event_type, limit): filter by type, then the last limit.
get_recent_events(M, type, limit) ==
  LastN(Filter(M.events, LAMBDA e : e.event_type = type), limit)

LiveStatuses == {"pending", "assigned", "in_progress"}

get_tasks_by_status(M, status) ==
  Filter([i \in DOMAIN M.tasks |-> i], LAMBDA i : M.tasks[i].status = status)

update_infestation(M, p, new_level) ==
  IF InBounds(M.world, p) THEN [M EXCEPT !.infestation[p] = new_level] ELSE M

get_infestation(M, p) == IF InBounds(M.world, p) THEN M.infestation[p] ELSE 0

NoCommand == [action |-> "none", task_id |-> NoTask, task_position |-> NoPos,
              path |-> <<>>, barn_position |-> NoPos, urgent |-> FALSE]

set_shared(M, agent_id, command) == [M EXCEPT !.shared[agent_id] = command]
delete_shared(M, agent_id) == [M EXCEPT !.shared[agent_id] = NoCommand]

VARIABLES
  world,          \* index into Worlds of the world_instance (never changes)
  agents,         \* KnowledgeBase._agents: agent id -> AgentState
  tasks,          \* KnowledgeBase._tasks, in creation order
  infestation,    \* WorldState.infestation_grid
  field_weights,  \* WorldState.field_weights, as the number of crossings
  events,         \* KnowledgeBase._events
  shared,         \* KnowledgeBase._shared_data: command_<id> per agent
  fumigators,     \* the FumigatorAgent objects' own attributes
  processed_assignments,   \* PathPlannerKS.processed_assignments
  agent_position_history,  \* ConflictResolverKS.agent_position_history
  recalculation_attempts,  \* ConflictResolverKS.recalculation_attempts
  agent_targets,           \* ConflictResolverKS.agent_targets
  total_steps,    \* FumigationModel.total_steps
  ks_to_activate, \* execute_cycle: the Knowledge Sources still to visit
  executed_ks_this_cycle, \* ControlComponent.executed_ks_this_cycle
  activation_count,       \* execute_cycle: activation_count
  agent_index,    \* FumigationModel.step: the next agent of the agent pass
  simulation_ready, \* the shared value simulation_ready_to_complete
  analyzed_positions, \* ScoutAgent.analyzed_positions
  faults,         \* how many exceptions were raised inside Knowledge Sources
  pc,             \* where the runner is: "step", "cycle", "agents", "check",
                  \* "completed" (loop left by break), "limit" (max_steps),
                  \* "failed" (an exception left the tick)
  \* agent_system: commands to the renderer and their confirmations
  pending_confirmations, \* pending_confirmations[simulation_id]: agent -> Event
  confirmation_events,   \* the threading.Event objects whose flag is set
  command_count,  \* how many commands the simulation thread has sent
  command_agent,  \* the agent of the command being sent
  command_pc,     \* where the simulation thread is in the commanded action
  wait_left,      \* what is left of the timeout of confirmation_event.wait
  confirmed,      \* command -> what _send_agent_command returned
  applied,        \* command -> how many times its action was executed
  delivered,      \* commands the renderer received and has not confirmed yet
  confirmations,  \* command_confirmation messages on their way to the consumer
  consumer        \* the confirmation _receive_agent_confirmation is handling

\* The blackboard simulation.
sim_vars == <<world, agents, tasks, infestation, field_weights, events, shared,
              fumigators, processed_assignments, agent_position_history,
              recalculation_attempts, agent_targets, total_steps, ks_to_activate,
              executed_ks_this_cycle, activation_count,
              agent_index, simulation_ready, analyzed_positions, faults, pc>>

\* The command channel of agent_system.
command_vars == <<pending_confirmations, confirmation_events, command_count,
                  command_agent, command_pc, wait_left, confirmed, applied,
                  delivered, confirmations, consumer>>

vars == <<sim_vars, command_vars>>

\* The program state as one record, and its assignment to the next state.
Pack ==
  [world |-> world, agents |-> agents, tasks |-> tasks, infestation |-> infestation,
   field_weights |-> field_weights, events |-> events, shared |-> shared,
   fumigators |-> fumigators, processed_assignments |-> processed_assignments,
   agent_position_history |-> agent_position_history,
   recalculation_attempts |-> recalculation_attempts, agent_targets |-> agent_targets,
   total_steps |-> total_steps]

Unpack(M) ==
  /\ world' = M.world
  /\ agents' = M.agents
  /\ tasks' = M.tasks
  /\ infestation' = M.infestation
  /\ field_weights' = M.field_weights
  /\ events' = M.events
  /\ shared' = M.shared
  /\ fumigators' = M.fumigators
  /\ processed_assignments' = M.processed_assignments
  /\ agent_position_history' = M.agent_position_history
  /\ recalculation_attempts' = M.recalculation_attempts
  /\ agent_targets' = M.agent_targets
  /\ total_steps' = M.total_steps


\* ------------------------------------------------------------------------
\* Construction: FumigationModel.setup
\* ------------------------------------------------------------------------
pesticide_capacity == 1000

\* Priority from the infestation thresholds.
PriorityOf(level) ==
  IF level >= 80 THEN "critical"
  ELSE IF level >= 50 THEN "high"
  ELSE IF level >= 20 THEN "medium"
  ELSE "low"

\* The two attributes of a task that TaskAllocatorKS and ConflictResolverKS read
\* and write and that the TaskState dataclass does not declare.
TaskFailureFields == [failure_count |-> 0, last_failure_at |-> NoTime]

TaskState(position, level) ==
  [position |-> position, infestation_level |-> level, priority |-> PriorityOf(level),
   status |-> "pending", assigned_agent_id |-> NoAgent, assigned_at |-> NoTime]
  @@ TaskFailureFields

\* BaseAgent.setup: start_positions is keyed by 0..n-1 and agent ids are 1..n,
\* so the last agent falls back to _get_default_position.
StartPosition(w, id) ==
  LET barn_cells == barn_positions(w)
      n == Worlds[w].num_fumigators
  IN IF id < n THEN barn_cells[(id % Len(barn_cells)) + 1] ELSE barn_cells[1]

AgentState(position) ==
  [position |-> position, status |-> "idle", pesticide_level |-> pesticide_capacity,
   current_task_id |-> NoTask, path |-> <<>>, path_index |-> 0,
   tasks_completed |-> 0, fields_fumigated |-> 0]

FumigatorAgent(position) ==
  [position |-> position, status |-> "idle", pesticide_level |-> pesticide_capacity,
   current_task_id |-> NoTask, waiting_steps |-> 0,
   tasks_completed |-> 0, fields_fumigated |-> 0]

task_exists_for_position(M, position) ==
  \E i \in DOMAIN M.tasks :
    M.tasks[i].position = position /\ M.tasks[i].status \in LiveStatuses

min_infestation == 10

RECURSIVE initialize_all_tasks(_, _)
\* FumigationModel._initialize_all_tasks from the k-th cell of the scan on.
initialize_all_tasks(M, k) ==
  IF k > Len(ScanOrder(M.world)) THEN M
  ELSE
    LET p == ScanOrder(M.world)[k]
        level == Worlds[M.world].infestation_grid[p[2] + 1][p[1] + 1]
    IN IF Tile(M.world, p) = FIELD /\ level >= min_infestation
          /\ ~task_exists_for_position(M, p)
       THEN initialize_all_tasks(create_task(M, TaskState(p, level)), k + 1)
       ELSE initialize_all_tasks(M, k + 1)

setup(w) ==
  LET ids == 1..Worlds[w].num_fumigators
      M0 == [world |-> w,
             agents |-> [id \in ids |-> AgentState(StartPosition(w, id))],
             tasks |-> <<>>,
             infestation |-> [p \in Cells(w) |-> Worlds[w].infestation_grid[p[2] + 1][p[1] + 1]],
             field_weights |-> [p \in Cells(w) |-> 0],
             events |-> <<>>,
             shared |-> [id \in ids |-> NoCommand],
             fumigators |-> [id \in ids |-> FumigatorAgent(StartPosition(w, id))],
             processed_assignments |-> {},
             agent_position_history |-> [id \in ids |-> <<>>],
             recalculation_attempts |-> [id \in ids |-> 0],
             agent_targets |-> [id \in ids |-> NoPos],
             total_steps |-> 0]
  IN initialize_all_tasks(M0, 1)

\* The blackboard simulation after construction on world w.
InitWorld(w) ==
    /\ world = w
    /\ agents = setup(w).agents
    /\ tasks = setup(w).tasks
    /\ infestation = setup(w).infestation
    /\ field_weights = setup(w).field_weights
    /\ events = setup(w).events
    /\ shared = setup(w).shared
    /\ fumigators = setup(w).fumigators
    /\ processed_assignments = {}
    /\ agent_position_history = setup(w).agent_position_history
    /\ recalculation_attempts = setup(w).recalculation_attempts
    /\ agent_targets = setup(w).agent_targets
    /\ total_steps = 0
    /\ ks_to_activate = <<>>
    /\ executed_ks_this_cycle = {}
    /\ activation_count = 0
    /\ agent_index = 0
    /\ simulation_ready = FALSE
    /\ analyzed_positions = {}
    /\ faults = 0
    /\ pc = "step"

\* Commands of the simulation thread are numbered 1..MaxCommands; the Event
\* created for a command carries the command's number.
MaxCommands == 3
CommandAgents == {1, 2}
NoEvent == 0
NoConfirmation == [agent |-> NoAgent, command |-> 0, event |-> NoEvent]

\* agent_system at import: pending_confirmations = defaultdict(dict)
InitCommands ==
  /\ pending_confirmations = [a \in CommandAgents |-> NoEvent]
  /\ confirmation_events = {}
  /\ command_count = 0
  /\ command_agent = NoAgent
  /\ command_pc = "step"
  /\ wait_left = 0
  /\ confirmed = [c \in 1..MaxCommands |-> FALSE]
  /\ applied = [c \in 1..MaxCommands |-> 0]
  /\ delivered = {}
  /\ confirmations = {}
  /\ consumer = NoConfirmation

Init == InitCommands /\ \E w \in 1..Len(Worlds) : InitWorld(w)

\* ------------------------------------------------------------------------
\* ControlComponent.execute_cycle: which Knowledge Sources the cycle visits.
\* ------------------------------------------------------------------------
KnowledgeSources ==
  << [name |-> "TaskPlannerKS", priority |-> 9, always_run |-> FALSE,
      triggers |-> {"field_discovered"}],
     [name |-> "TaskAllocatorKS", priority |-> 8, always_run |-> TRUE,
      triggers |-> {"task_created", "agent_idle", "task_completed"}],
     [name |-> "ResourceManagerKS", priority |-> 7, always_run |-> TRUE,
      triggers |-> {"task_completed", "agent_moved"}],
     [name |-> "PathPlannerKS", priority |-> 6, always_run |-> FALSE,
      triggers |-> {"task_assigned"}],
     [name |-> "ConflictResolverKS", priority |-> 4, always_run |-> TRUE,
      triggers |-> {"task_failed", "conflict_detected"}] >>

RecentEventsLimit == 100

\* The set built from the recent events and the always_run flags, sorted by
\* descending priority (the registered priorities are pairwise different).
\* sorted(ks_to_activate, key=lambda ks: ks.priority, reverse=True)
sorted_by_priority(selected) ==
  LET rank(i) == 1 + Cardinality({j \in DOMAIN selected :
                                    selected[j].priority > selected[i].priority})
  IN [k \in DOMAIN selected |-> selected[CHOOSE i \in DOMAIN selected : rank(i) = k]]

\* The chosen sources by ascending priority.
sorted_by_priority_ascending(selected) ==
  LET rank(i) == 1 + Cardinality({j \in DOMAIN selected :
                                    selected[j].priority < selected[i].priority})
  IN [k \in DOMAIN selected |-> selected[CHOOSE i \in DOMAIN selected : rank(i) = k]]

order_of_execution(selected) == sorted_by_priority(selected)

SelectKnowledgeSources(M) ==
  LET recent == LastN(M.events, RecentEventsLimit)
      types == {recent[i].event_type : i \in DOMAIN recent}
      chosen(ks) == ks.always_run \/ (ks.triggers \cap types # {})
      selected == order_of_execution(Filter(KnowledgeSources, chosen))
  IN [i \in DOMAIN selected |-> selected[i].name]

\* ------------------------------------------------------------------------
\* Writes of a Knowledge Source.  execute() of TaskAllocatorKS and of
\* ResourceManagerKS is a list of KnowledgeBase writes decided from what the
\* source read; the whole list is applied in order.
\* ------------------------------------------------------------------------
TaskWrite(task_id, updates) == [kind |-> "update_task", id |-> task_id, value |-> updates]
AgentWrite(agent_id, updates) == [kind |-> "update_agent", id |-> agent_id, value |-> updates]
SharedWrite(agent_id, command) == [kind |-> "set_shared", id |-> agent_id, value |-> command]
EventWrite(e) == [kind |-> "emit_event", id |-> 0, value |-> e]

ApplyWrite(M, wr) ==
  CASE wr.kind = "update_task" -> update_task(M, wr.id, wr.value)
    [] wr.kind = "update_agent" -> update_agent(M, wr.id, wr.value)
    [] wr.kind = "set_shared" -> set_shared(M, wr.id, wr.value)
    [] OTHER -> emit_event(M, wr.value)

RECURSIVE ApplyWrites(_, _, _)
\* The first n writes of the list, in order.
ApplyWrites(M, writes, n) ==
  IF n = 0 THEN M ELSE ApplyWrite(ApplyWrites(M, writes, n - 1), writes[n])

\* ------------------------------------------------------------------------
\* TaskAllocatorKS
\* ------------------------------------------------------------------------
AgentIds(M) == [i \in 1..Cardinality(DOMAIN M.agents) |-> i]

get_idle_agents(M) == Filter(AgentIds(M), LAMBDA id : M.agents[id].status = "idle")

priority_order(priority) ==
  CASE priority = "critical" -> 0
    [] priority = "high" -> 1
    [] priority = "medium" -> 2
    [] OTHER -> 3

\* Position of task i in the stable sort by (priority_order, -infestation_level).
SortsBefore(M, i, j) ==
  LET ti == M.tasks[i]
      tj == M.tasks[j]
  IN \/ priority_order(ti.priority) < priority_order(tj.priority)
     \/ /\ priority_order(ti.priority) = priority_order(tj.priority)
        /\ \/ ti.infestation_level > tj.infestation_level
           \/ ti.infestation_level = tj.infestation_level /\ i < j

get_pending_tasks(M) ==
  LET pending == {i \in DOMAIN M.tasks : M.tasks[i].status = "pending"}
      rank(i) == 1 + Cardinality({j \in pending : SortsBefore(M, j, i)})
  IN [k \in 1..Cardinality(pending) |-> CHOOSE i \in pending : rank(i) = k]

FailureCap == 5
\* timedelta(seconds=5) and timedelta(seconds=15) at one tick per 0.5 s.
Cooldown == 10
LongCooldown == 30
HighFailureCount == 3

\* _get_assignable_tasks when datetime.now() reads now.
get_assignable_tasks_at(M, now) ==
  LET assignable(i) ==
        LET task == M.tasks[i]
        IN /\ ~(task.failure_count >= FailureCap)
           /\ ~(task.last_failure_at # NoTime /\ now - task.last_failure_at < Cooldown)
           /\ ~(task.failure_count >= HighFailureCount /\ task.last_failure_at # NoTime
                /\ now - task.last_failure_at < LongCooldown)
  IN Filter(get_pending_tasks(M), assignable)

get_assignable_tasks(M) == get_assignable_tasks_at(M, Now(M))

manhattan_distance(p, q) == Abs(p[1] - q[1]) + Abs(p[2] - q[2])

Samples(start, end) == Max(1, manhattan_distance(start, end) \div 2)

\* (int(x0 + (x1 - x0) * i / samples), int(z0 + (z1 - z0) * i / samples))
SamplePoint(start, end, i) ==
  LET n == Samples(start, end)
  IN <<(start[1] * n + (end[1] - start[1]) * i) \div n,
       (start[2] * n + (end[2] - start[2]) * i) \div n>>

\* Field weights are 1.5^k capped at 100.0; they are kept as k and valued in
\* units of 1/2048 so that every cost below is an exact integer.
WeightUnit == 2048
MaxWeightSteps == 12
RECURSIVE Pow(_, _)
Pow(b, e) == IF e = 0 THEN 1 ELSE b * Pow(b, e - 1)
\* The weight after k crossings without the maximum: 1.5^k.
FieldWeightUncapped(k) ==
  IF k = 0 THEN 0 ELSE (Pow(3, k) * WeightUnit) \div Pow(2, k)

FieldWeight(k) ==
  IF k = 0 THEN 0
  ELSE IF k >= MaxWeightSteps THEN 100 * WeightUnit
  ELSE Pow(3, k) * Pow(2, 11 - k)

RECURSIVE SumTo(_, _)
\* f(0) + ... + f(n)
SumTo(f(_), n) == IF n < 0 THEN 0 ELSE f(n) + SumTo(f, n - 1)

\* _estimate_path_cost, as the exact fraction num / (den * WeightUnit).
estimate_path_cost(M, start, end) ==
  LET n == Samples(start, end)
      weight_at(i) ==
        LET p == SamplePoint(start, end, i)
        IN IF ~InBounds(M.world, p) THEN 0
           ELSE IF Tile(M.world, p) = FIELD
                THEN 10 * WeightUnit + FieldWeight(M.field_weights[p])
                ELSE WeightUnit
  IN [num |-> manhattan_distance(start, end) * SumTo(weight_at, n), den |-> n + 1]

\* _estimate_pesticide_needed
estimate_pesticide_needed(M, start, end, destination_infestation) ==
  LET n == Samples(start, end)
      needed_at(i) ==
        LET p == SamplePoint(start, end, i)
        IN IF p = start \/ p = end THEN 0
           ELSE IF InBounds(M.world, p) /\ Tile(M.world, p) = FIELD
                   /\ M.infestation[p] >= 10
                THEN M.infestation[p]
                ELSE 0
  IN ((destination_infestation + SumTo(needed_at, n)) * 105) \div 100

\* priority_weights, doubled: 0.5, 1.0, 2.0, 4.0
priority_weight_x2(priority) ==
  CASE priority = "critical" -> 1
    [] priority = "high" -> 2
    [] priority = "medium" -> 4
    [] priority = "low" -> 8
    [] OTHER -> 4

\* level < needed * 1.2
BelowMargin(level, needed) == level * 5 < needed * 6

\* One entry of _calculate_cost_matrix: penalty + num / (den * 2 * WeightUnit).
Cost(M, agent_id, task_id) ==
  With(M.agents[agent_id], LAMBDA agent :
  With(M.tasks[task_id], LAMBDA task :
  With(estimate_path_cost(M, agent.position, task.position), LAMBDA est :
  With(estimate_pesticide_needed(M, agent.position, task.position,
                                 task.infestation_level), LAMBDA needed :
    [num |-> est.num * priority_weight_x2(task.priority), den |-> est.den,
     penalty |-> IF agent.pesticide_level < needed THEN 50000
                 ELSE IF BelowMargin(agent.pesticide_level, needed) THEN 1000
                 ELSE 0]))))

\* a < b for two costs, without leaving the integers.
CostLess(a, b) ==
  LET ua == a.den * 2 * WeightUnit
      ub == b.den * 2 * WeightUnit
      ia == a.penalty + (a.num \div ua)
      ib == b.penalty + (b.num \div ub)
  IN ia < ib \/ (ia = ib /\ (a.num % ua) * b.den < (b.num % ub) * a.den)

\* The greedy loop without its two pesticide tests: every pair may be picked.
FeasibleUnchecked(M, agent_id, task_id) == TRUE

\* The pairs the greedy loop may pick: enough pesticide for the estimate
\* and for its 20% margin.
Feasible(M, agent_id, task_id) ==
  With(M.agents[agent_id], LAMBDA agent :
  With(M.tasks[task_id], LAMBDA task :
  With(estimate_pesticide_needed(M, agent.position, task.position,
                                 task.infestation_level), LAMBDA pesticide_needed :
    /\ ~(agent.pesticide_level < pesticide_needed)
    /\ ~BelowMargin(agent.pesticide_level, pesticide_needed))))

\* All (agent, task) pairs in the order of the nested loops.
PairsInOrder(agent_ids, task_ids) ==
  [k \in 1..(Len(agent_ids) * Len(task_ids)) |->
     <<agent_ids[((k - 1) \div Len(task_ids)) + 1], task_ids[((k - 1) % Len(task_ids)) + 1]>>]

\* The first feasible pair in the order of the loops, and no other.
first_feasible_pair(M, agent_ids, task_ids) ==
  With(Filter(PairsInOrder(agent_ids, task_ids), LAMBDA pr : Feasible(M, pr[1], pr[2])),
       LAMBDA pairs : IF pairs = <<>> THEN <<>> ELSE <<pairs[1]>>)

RECURSIVE optimal_assignment(_, _, _)
\* The greedy loop: the first pair of minimum cost among the feasible pairs
\* of still-available agents and tasks, until none is left.
optimal_assignment(M, agent_ids, task_ids) ==
  With(Filter(PairsInOrder(agent_ids, task_ids), LAMBDA pr : Feasible(M, pr[1], pr[2])),
       LAMBDA pairs :
    IF pairs = <<>> THEN <<>>
    ELSE
      With([k \in DOMAIN pairs |-> Cost(M, pairs[k][1], pairs[k][2])], LAMBDA cost_matrix :
      With(pairs[CHOOSE k \in DOMAIN pairs :
                   /\ \A j \in 1..(k - 1) : CostLess(cost_matrix[k], cost_matrix[j])
                   /\ \A j \in (k + 1)..Len(pairs) :
                        ~CostLess(cost_matrix[j], cost_matrix[k])],
           LAMBDA best_assignment :
        <<best_assignment>> \o
          optimal_assignment(M,
            Filter(agent_ids, LAMBDA id : id # best_assignment[1]),
            Filter(task_ids, LAMBDA id : id # best_assignment[2])))))

MinPesticideForTask == 10

TaskAllocator_check_preconditions(M) ==
  Len(get_idle_agents(M)) > 0 /\ Len(get_assignable_tasks(M)) > 0

\* The assignments execute() decides when datetime.now() reads now.
TaskAllocator_assignments_at(M, now) ==
  With(get_idle_agents(M), LAMBDA idle_fumigators :
  With(get_assignable_tasks_at(M, now), LAMBDA assignable_tasks :
  With(Filter(idle_fumigators,
              LAMBDA id : M.agents[id].pesticide_level >= MinPesticideForTask),
       LAMBDA available_fumigators :
    IF idle_fumigators = <<>> \/ assignable_tasks = <<>> \/ available_fumigators = <<>>
    THEN <<>>
    ELSE optimal_assignment(M, available_fumigators, assignable_tasks))))

\* The assignments execute() decides.
TaskAllocator_assignments(M) == TaskAllocator_assignments_at(M, Now(M))

\* The three writes of each assignment, in order.
TaskAllocator_writes(M) ==
  With(TaskAllocator_assignments(M), LAMBDA assignments :
    [k \in 1..(3 * Len(assignments)) |->
       With(assignments[((k - 1) \div 3) + 1][1], LAMBDA agent_id :
       With(assignments[((k - 1) \div 3) + 1][2], LAMBDA task_id :
         CASE (k - 1) % 3 = 0 ->
                TaskWrite(task_id, [status |-> "assigned", assigned_agent_id |-> agent_id,
                                    assigned_at |-> Now(M)])
           [] (k - 1) % 3 = 1 ->
                AgentWrite(agent_id, [current_task_id |-> task_id, status |-> "assigned"])
           [] OTHER ->
                SharedWrite(agent_id,
                            [NoCommand EXCEPT !.action = "execute_task",
                                              !.task_id = task_id,
                                              !.task_position = M.tasks[task_id].position])))])

TaskAllocator_execute(M) ==
  With(TaskAllocator_writes(M), LAMBDA writes : ApplyWrites(M, writes, Len(writes)))

\* ------------------------------------------------------------------------
\* world.pathfinding: Dijkstra with the dynamic field weights
\* ------------------------------------------------------------------------
is_passable(w, p) == InBounds(w, p) /\ Tile(w, p) \in {ROAD, FIELD, BARN}

get_neighbors(w, p) ==
  {q \in {<<p[1] + 1, p[2]>>, <<p[1] - 1, p[2]>>, <<p[1], p[2] + 1>>, <<p[1], p[2] - 1>>} :
     InBounds(w, q)}

\* DynamicPathfinder._get_cost with prefer_roads, in units of 1/WeightUnit,
\* for a passable cell.
get_cost(M, p) ==
  IF Tile(M.world, p) = FIELD
  THEN 10 * WeightUnit + FieldWeight(M.field_weights[p])
  ELSE WeightUnit

\* The greatest (cost, x, z) tuple of the heap.
HeapMax(pq) ==
  CHOOSE t \in pq : \A u \in pq :
    \/ t[1] > u[1]
    \/ t[1] = u[1] /\ t[2] > u[2]
    \/ t[1] = u[1] /\ t[2] = u[2] /\ t[3] >= u[3]

\* The least (cost, x, z) tuple of the heap.
HeapMin(pq) ==
  CHOOSE t \in pq : \A u \in pq :
    \/ t[1] < u[1]
    \/ t[1] = u[1] /\ t[2] < u[2]
    \/ t[1] = u[1] /\ t[2] = u[2] /\ t[3] <= u[3]

RECURSIVE reconstruct(_, _)
reconstruct(came_from, node) ==
  IF node = NoPos THEN <<>> ELSE Append(reconstruct(came_from, came_from[node]), node)

RECURSIVE dijkstra_loop(_, _, _, _, _, _)
\* The while loop of Pathfinder.dijkstra; costs is -1 where no cost is known.
\* The result is the path, or <<>> for None.
dijkstra_loop(M, end, pq, costs, came_from, visited) ==
  IF pq = {} THEN <<>>
  ELSE
    LET top == HeapMin(pq)
        current == <<top[2], top[3]>>
        rest == pq \ {top}
    IN IF current \in visited
       THEN dijkstra_loop(M, end, rest, costs, came_from, visited)
       ELSE IF current = end THEN reconstruct(came_from, end)
       ELSE
         LET improved ==
               {q \in get_neighbors(M.world, current) :
                  /\ q \notin visited \cup {current}
                  /\ is_passable(M.world, q)
                  /\ (costs[q] = -1 \/ top[1] + get_cost(M, q) < costs[q])}
         IN dijkstra_loop(M, end,
              rest \cup {<<top[1] + get_cost(M, q), q[1], q[2]>> : q \in improved},
              [q \in DOMAIN costs |-> IF q \in improved THEN top[1] + get_cost(M, q)
                                      ELSE costs[q]],
              [q \in DOMAIN came_from |-> IF q \in improved THEN current
                                          ELSE came_from[q]],
              visited \cup {current})

\* PathPlannerKS._calculate_path: the path from start to goal, start
\* included, or <<>> when there is none.
calculate_path(M, start, goal) ==
  IF ~is_passable(M.world, start) \/ ~is_passable(M.world, goal) THEN <<>>
  ELSE dijkstra_loop(M, goal, {<<0, start[1], start[2]>>},
                     [q \in Cells(M.world) |-> IF q = start THEN 0 ELSE -1],
                     [q \in Cells(M.world) |-> NoPos], {})

\* ------------------------------------------------------------------------
\* PathPlannerKS
\* ------------------------------------------------------------------------
AssignmentEventsLimit == 20

PathPlanner_check_preconditions(M) ==
  LET recent_assignments == get_recent_events(M, "task_assigned", AssignmentEventsLimit)
  IN \E i \in DOMAIN recent_assignments :
       <<recent_assignments[i].agent_id, recent_assignments[i].task_id>>
         \notin M.processed_assignments

\* What execute() does for a TaskAssigned event whose pair is not cached.
PathPlanner_calculate(M, event) ==
  LET key == <<event.agent_id, event.task_id>>
  IN IF event.agent_id \notin DOMAIN M.agents \/ event.task_id \notin DOMAIN M.tasks
     THEN M
     ELSE
       LET path == calculate_path(M, M.agents[event.agent_id].position,
                                  M.tasks[event.task_id].position)
           M1 == update_agent(M, event.agent_id, [path |-> path, path_index |-> 0])
           M2 == IF M1.shared[event.agent_id].action # "none"
                 THEN set_shared(M1, event.agent_id,
                                 [M1.shared[event.agent_id] EXCEPT !.path = path])
                 ELSE M1
           M3 == emit_event(M2, Event("path_calculated", event.agent_id, event.task_id,
                                      NoPos, 0))
           M4 == IF path # <<>> THEN M3 ELSE M
       IN [M4 EXCEPT !.processed_assignments = @ \cup {key}]

\* The loop body without the look-up in processed_assignments.
PathPlanner_process_uncached(M, event) == PathPlanner_calculate(M, event)

\* The body of the loop of execute() for one TaskAssigned event.
PathPlanner_process(M, event) ==
  IF <<event.agent_id, event.task_id>> \in M.processed_assignments THEN M
  ELSE PathPlanner_calculate(M, event)

RECURSIVE PathPlanner_loop(_, _, _)
PathPlanner_loop(M, recent_assignments, n) ==
  IF n = 0 THEN M
  ELSE PathPlanner_process(PathPlanner_loop(M, recent_assignments, n - 1),
                           recent_assignments[n])

PathPlanner_execute(M) ==
  LET recent_assignments == get_recent_events(M, "task_assigned", AssignmentEventsLimit)
  IN PathPlanner_loop(M, recent_assignments, Len(recent_assignments))

\* PathPlannerKS.recalculate_path: the new state and the returned path;
\* found is FALSE when None or an empty path is returned.
recalculate_path(M, agent_id) ==
  LET agent == M.agents[agent_id]
  IN IF agent.current_task_id = NoTask \/ agent.current_task_id \notin DOMAIN M.tasks
     THEN [M |-> M, found |-> FALSE]
     ELSE
       LET path == calculate_path(M, agent.position, M.tasks[agent.current_task_id].position)
       IN IF path # <<>>
          THEN [M |-> update_agent(M, agent_id, [path |-> path, path_index |-> 0]),
                found |-> TRUE]
          ELSE [M |-> M, found |-> FALSE]

\* ------------------------------------------------------------------------
\* ResourceManagerKS
\* ------------------------------------------------------------------------
low_pesticide_threshold == 100
critical_pesticide_threshold == 10

\* The first barn of the list, whatever its distance.
first_barn(w, position) == barn_positions(w)[1]

\* The first barn of least Manhattan distance.
find_nearest_barn(w, position) ==
  LET barns == barn_positions(w)
      k == CHOOSE i \in DOMAIN barns :
             /\ \A j \in 1..(i - 1) :
                  manhattan_distance(position, barns[i]) < manhattan_distance(position, barns[j])
             /\ \A j \in (i + 1)..Len(barns) :
                  manhattan_distance(position, barns[i]) <= manhattan_distance(position, barns[j])
  IN barns[k]

RefillCommand(barn_position, urgent) ==
  [NoCommand EXCEPT !.action = "refill_pesticide", !.barn_position = barn_position,
                    !.urgent = urgent]

trigger_refill_writes(M, agent_id, urgent) ==
  << AgentWrite(agent_id, [status |-> "returning_to_barn"]),
     SharedWrite(agent_id,
                 RefillCommand(find_nearest_barn(M.world, M.agents[agent_id].position), urgent)),
     EventWrite(Event("agent_low_resource", agent_id, NoTask, NoPos, 0)) >>

\* The task is left with the agent and no refill is commanded.
no_cancel_writes(M, agent_id, task_id) == <<>>

cancel_task_and_refill_writes(M, agent_id, task_id) ==
  << TaskWrite(task_id, [status |-> "pending", assigned_agent_id |-> NoAgent]),
     AgentWrite(agent_id, [current_task_id |-> NoTask]) >>
  \o trigger_refill_writes(M, agent_id, TRUE)

\* The writes of one pass of the loop of execute().
ResourceManager_agent_writes(M, agent_id) ==
  LET fumigator == M.agents[agent_id]
      refill ==
        IF fumigator.pesticide_level <= critical_pesticide_threshold
        THEN trigger_refill_writes(M, agent_id, TRUE)
        ELSE IF fumigator.pesticide_level < low_pesticide_threshold
                /\ fumigator.status \in {"idle", "completed"}
        THEN trigger_refill_writes(M, agent_id, FALSE)
        ELSE <<>>
      cancel ==
        IF /\ fumigator.current_task_id # NoTask
           /\ fumigator.current_task_id \in DOMAIN M.tasks
           /\ fumigator.pesticide_level < M.tasks[fumigator.current_task_id].infestation_level
        THEN cancel_task_and_refill_writes(M, agent_id, fumigator.current_task_id)
        ELSE <<>>
  IN refill \o cancel

RECURSIVE ResourceManager_writes_upto(_, _)
ResourceManager_writes_upto(M, n) ==
  IF n = 0 THEN <<>>
  ELSE ResourceManager_writes_upto(M, n - 1) \o ResourceManager_agent_writes(M, n)

ResourceManager_writes(M) == ResourceManager_writes_upto(M, Len(AgentIds(M)))

ResourceManager_check_preconditions(M) ==
  \E id \in DOMAIN M.agents : M.agents[id].pesticide_level < low_pesticide_threshold

ResourceManager_execute(M) ==
  ApplyWrites(M, ResourceManager_writes(M), Len(ResourceManager_writes(M)))

\* ------------------------------------------------------------------------
\* TaskPlannerKS
\* ------------------------------------------------------------------------
DiscoveryEventsLimit == 50
planner_min_infestation == 1

TaskPlanner_check_preconditions(M) ==
  LET recent_discoveries == get_recent_events(M, "field_discovered", DiscoveryEventsLimit)
  IN \E i \in DOMAIN recent_discoveries :
       ~task_exists_for_position(M, recent_discoveries[i].position)

RECURSIVE TaskPlanner_loop(_, _, _)
\* execute(): one new task per discovery without a live task at its position.
TaskPlanner_loop(M, recent_discoveries, n) ==
  IF n = 0 THEN M
  ELSE
    LET M1 == TaskPlanner_loop(M, recent_discoveries, n - 1)
        event == recent_discoveries[n]
    IN IF event.infestation < planner_min_infestation
          \/ task_exists_for_position(M1, event.position)
       THEN M1
       ELSE create_task(M1, TaskState(event.position, event.infestation))

TaskPlanner_execute(M) ==
  LET recent_discoveries == get_recent_events(M, "field_discovered", DiscoveryEventsLimit)
  IN TaskPlanner_loop(M, recent_discoveries, Len(recent_discoveries))

\* ------------------------------------------------------------------------
\* ConflictResolverKS
\* ------------------------------------------------------------------------
stuck_threshold == 2

AllSame(history) == \A i \in DOMAIN history : history[i] = history[1]

MotionStatuses == {"executing_task", "assigned", "moving"}

\* The body of the first loop of _detect_stuck_agents for one agent: the
\* position sample, and whether the agent is appended to stuck_agents.
detect_sample(M, agent_id) ==
  LET agent == M.agents[agent_id]
      old == M.agent_position_history[agent_id]
      appended == Append(old, agent.position)
      history == IF Len(appended) > stuck_threshold * 2 THEN Tail(appended) ELSE appended
      moved == old # <<>> /\ old[Len(old)] # agent.position
      still == Len(history) >= stuck_threshold /\ AllSame(history)
      has_task == agent.current_task_id # NoTask
      command == M.shared[agent_id]
      stuck ==
        still /\ IF has_task
                 THEN agent.path # <<>> \/ agent.status \in MotionStatuses
                 ELSE agent.status \in {"waiting", "returning_to_barn"} \cup MotionStatuses
      target ==
        IF still /\ has_task /\ agent.path # <<>> /\ Len(agent.path) > agent.path_index
        THEN agent.path[agent.path_index + 1]
        ELSE IF still /\ ~has_task /\ agent.status = "returning_to_barn"
                /\ command.action = "refill_pesticide"
        THEN command.barn_position
        ELSE IF moved THEN NoPos
        ELSE M.agent_targets[agent_id]
  IN [M |-> [M EXCEPT !.agent_position_history[agent_id] = history,
                      !.recalculation_attempts[agent_id] = IF moved THEN 0 ELSE @,
                      !.agent_targets[agent_id] = target],
      stuck |-> stuck]

\* The target of an agent in _detect_bidirectional_deadlocks (NoPos: none).
deadlock_target(M, agent_id) ==
  LET agent == M.agents[agent_id]
      command == M.shared[agent_id]
  IN IF M.agent_targets[agent_id] # NoPos THEN M.agent_targets[agent_id]
     ELSE IF agent.path # <<>> /\ Len(agent.path) > agent.path_index
     THEN agent.path[agent.path_index + 1]
     ELSE IF agent.status = "returning_to_barn" /\ command.action = "refill_pesticide"
     THEN command.barn_position
     ELSE NoPos

\* other_target of the inner loop: no barn fallback there.
deadlock_other_target(M, other_id) ==
  LET other == M.agents[other_id]
  IN IF M.agent_targets[other_id] # NoPos THEN M.agent_targets[other_id]
     ELSE IF other.path # <<>> /\ Len(other.path) > other.path_index
     THEN other.path[other.path_index + 1]
     ELSE NoPos

RECURSIVE deadlock_inner(_, _, _, _, _)
\* The inner loop over other_id for one agent_id; D is the pair of the
\* deadlock groups found so far and the checked set.
deadlock_inner(M, stuck_agents, agent_id, n, D) ==
  IF n = 0 THEN D
  ELSE
    LET D1 == deadlock_inner(M, stuck_agents, agent_id, n - 1, D)
        other_id == stuck_agents[n]
    IN IF other_id = agent_id \/ other_id \in D1.checked THEN D1
       ELSE IF /\ M.agents[other_id].position = deadlock_target(M, agent_id)
               /\ deadlock_other_target(M, other_id) # NoPos
               /\ M.agents[agent_id].position = deadlock_other_target(M, other_id)
       THEN [deadlocks |-> Append(D1.deadlocks, <<agent_id, other_id>>),
             checked |-> D1.checked \cup {agent_id, other_id}]
       ELSE D1

RECURSIVE deadlock_outer(_, _, _)
deadlock_outer(M, stuck_agents, n) ==
  IF n = 0 THEN [deadlocks |-> <<>>, checked |-> {}]
  ELSE
    LET D1 == deadlock_outer(M, stuck_agents, n - 1)
        agent_id == stuck_agents[n]
    IN IF agent_id \in D1.checked \/ deadlock_target(M, agent_id) = NoPos THEN D1
       ELSE deadlock_inner(M, stuck_agents, agent_id, Len(stuck_agents), D1)

detect_bidirectional_deadlocks(M, stuck_agents) ==
  deadlock_outer(M, stuck_agents, Len(stuck_agents)).deadlocks

RECURSIVE detect_loop(_, _)
\* The samples of agents 1..n, with the stuck list so far.
detect_loop(M, n) ==
  IF n = 0 THEN [M |-> M, stuck |-> <<>>]
  ELSE
    LET before == detect_loop(M, n - 1)
        sample == detect_sample(before.M, n)
    IN [M |-> sample.M,
        stuck |-> IF sample.stuck THEN Append(before.stuck, n) ELSE before.stuck]

\* _detect_stuck_agents: the members of a deadlock are stuck agents already.
detect_stuck_agents(M) == detect_loop(M, Len(AgentIds(M)))

ResetUpdates == [status |-> "idle", current_task_id |-> NoTask, path |-> <<>>, path_index |-> 0]

\* update_task(... failure_count + 1 ...): permanently failed at the cap,
\* pending again below it.
FailureUpdates(M, task_id) ==
  LET failure_count == M.tasks[task_id].failure_count + 1
  IN [status |-> IF failure_count >= FailureCap THEN "failed" ELSE "pending",
      assigned_agent_id |-> NoAgent, failure_count |-> failure_count,
      last_failure_at |-> Now(M)]

RECURSIVE handle_failed_loop(_, _, _)
handle_failed_loop(M, processable_tasks, n) ==
  IF n = 0 THEN M
  ELSE LET M1 == handle_failed_loop(M, processable_tasks, n - 1)
       IN update_task(M1, processable_tasks[n], FailureUpdates(M1, processable_tasks[n]))

processable_failed_tasks(M) ==
  Filter(get_tasks_by_status(M, "failed"),
         LAMBDA i : M.tasks[i].failure_count < FailureCap)

\* The failed tasks left as they are.
failed_tasks_left(M) == M

\* _handle_failed_tasks
handle_failed_tasks(M) ==
  handle_failed_loop(M, processable_failed_tasks(M), Len(processable_failed_tasks(M)))

\* What the code reads after its own update_agent: the agent record is the
\* live object, so the read sees the values just written.
release_task_after_reset(M, agent_id) ==
  LET agent == M.agents[agent_id]
  IN IF agent.current_task_id # NoTask /\ agent.current_task_id \in DOMAIN M.tasks
        /\ M.tasks[agent.current_task_id].failure_count < FailureCap
     THEN update_task(M, agent.current_task_id,
                      [FailureUpdates(M, agent.current_task_id) EXCEPT !.status = "pending"])
     ELSE M

force_reset_agent(M, agent_id) ==
  LET M1 == delete_shared(update_agent(M, agent_id, ResetUpdates), agent_id)
      M2 == [M1 EXCEPT !.agent_position_history[agent_id] = <<>>,
                       !.recalculation_attempts[agent_id] = 0,
                       !.agent_targets[agent_id] = NoPos]
  IN release_task_after_reset(M2, agent_id)

\* One greedy axis-aligned step from position towards the barn.
direct_step(position, barn_position) ==
  IF Abs(barn_position[1] - position[1]) > Abs(barn_position[2] - position[2])
  THEN <<position[1] + (IF barn_position[1] > position[1] THEN 1 ELSE -1), position[2]>>
  ELSE <<position[1], position[2] + (IF barn_position[2] > position[2] THEN 1 ELSE -1)>>

position_free(M, agent_id, pos) ==
  \A other \in DOMAIN M.agents : other = agent_id \/ M.agents[other].position # pos

\* The first block of the loop of _handle_stuck_agents: the task of a stuck
\* agent is failed or recycled before anything is tried for the agent.
stuck_task_update(M, agent_id) ==
  LET task_id == M.agents[agent_id].current_task_id
  IN IF task_id = NoTask \/ task_id \notin DOMAIN M.tasks THEN M
     ELSE IF M.tasks[task_id].failure_count < FailureCap
     THEN update_task(M, task_id, FailureUpdates(M, task_id))
     ELSE update_task(M, task_id, [assigned_agent_id |-> NoAgent])

\* The last block: reset to idle, ConflictDetected.
stuck_reset(M, agent_id) ==
  LET M1 == delete_shared(update_agent(M, agent_id, ResetUpdates), agent_id)
      task_id == M1.agents[agent_id].current_task_id
      M2 == IF task_id # NoTask /\ task_id \in DOMAIN M1.tasks
            THEN IF M1.tasks[task_id].failure_count + 1 >= FailureCap
                 THEN update_task(M1, task_id,
                                  [status |-> "failed", assigned_agent_id |-> NoAgent,
                                   failure_count |-> M1.tasks[task_id].failure_count + 1])
                 ELSE update_task(M1, task_id, FailureUpdates(M1, task_id))
            ELSE M1
      M3 == [M2 EXCEPT !.agent_position_history[agent_id] = <<>>,
                       !.recalculation_attempts[agent_id] = 0]
  IN emit_event(M3, Event("conflict_detected", agent_id, NoTask, NoPos, 0))

MaxRecalculationAttempts == 2

\* The bound ignored: the agent is never given up for its attempts.
attempts_never_exhausted(attempts) == FALSE

\* "if self.recalculation_attempts[agent_id] >= 2"
attempts_exhausted(attempts) == attempts >= MaxRecalculationAttempts

\* One pass of the loop of _handle_stuck_agents; returned is TRUE when the
\* pass ends in "return", which leaves the handler.
handle_stuck_agent(M, agent_id) ==
  LET M1 == stuck_task_update(M, agent_id)
      attempts == M1.recalculation_attempts[agent_id] + 1
      agent == M1.agents[agent_id]
      command == M1.shared[agent_id]
      recalc == recalculate_path(M1, agent_id)
      alt_pos == direct_step(agent.position, command.barn_position)
  IN IF attempts_exhausted(attempts)
     THEN [M |-> stuck_reset([M1 EXCEPT !.recalculation_attempts[agent_id] = 0], agent_id),
           returned |-> FALSE]
     ELSE IF agent.current_task_id # NoTask /\ agent.current_task_id \in DOMAIN M1.tasks
             /\ recalc.found
     THEN [M |-> [recalc.M EXCEPT !.recalculation_attempts[agent_id] = attempts,
                                  !.agent_position_history[agent_id] = <<>>],
           returned |-> TRUE]
     ELSE IF agent.status = "returning_to_barn" /\ command.action = "refill_pesticide"
             /\ position_free(M1, agent_id, alt_pos)
     THEN [M |-> [update_agent(M1, agent_id,
                               [position |-> alt_pos, path |-> <<>>, path_index |-> 0,
                                status |-> "returning_to_barn"])
                    EXCEPT !.agent_position_history[agent_id] = <<>>,
                           !.recalculation_attempts[agent_id] = 0],
           returned |-> TRUE]
     ELSE [M |-> stuck_reset([M1 EXCEPT !.recalculation_attempts[agent_id] = attempts],
                             agent_id),
           returned |-> FALSE]

RECURSIVE handle_stuck_loop(_, _, _)
handle_stuck_loop(M, stuck_agents, n) ==
  IF n = 0 THEN [M |-> M, returned |-> FALSE]
  ELSE LET before == handle_stuck_loop(M, stuck_agents, n - 1)
       IN IF before.returned THEN before
          ELSE handle_stuck_agent(before.M, stuck_agents[n])

RECURSIVE break_deadlocks(_, _, _)
\* The loop over the deadlock groups: the first member of each is reset.
break_deadlocks(M, deadlocks, n) ==
  IF n = 0 THEN M
  ELSE force_reset_agent(break_deadlocks(M, deadlocks, n - 1), deadlocks[n][1])

\* _handle_stuck_agents up to its second loop: the state after the deadlock
\* groups were broken, and the stuck agents left for the loop.
stuck_agents_left(M) ==
  LET detected == detect_stuck_agents(M)
      deadlocks == detect_bidirectional_deadlocks(detected.M, detected.stuck)
      reset == {deadlocks[i][1] : i \in DOMAIN deadlocks}
  IN [M |-> break_deadlocks(detected.M, deadlocks, Len(deadlocks)),
      stuck_agents |-> Filter(detected.stuck, LAMBDA id : id \notin reset)]

handle_stuck_agents(M) ==
  LET left == stuck_agents_left(M)
  IN handle_stuck_loop(left.M, left.stuck_agents, Len(left.stuck_agents)).M

\* The agents _handle_waiting_agents collects.
waiting_agents(M) ==
  Filter(AgentIds(M),
         LAMBDA id : /\ M.agents[id].status \in {"waiting", "returning_to_barn"}
                     /\ Len(M.agent_position_history[id]) >= stuck_threshold
                     /\ AllSame(M.agent_position_history[id]))

\* The reset at the end of the loop of _handle_waiting_agents.
waiting_reset(M, agent_id) ==
  LET M1 == delete_shared(update_agent(M, agent_id, ResetUpdates), agent_id)
      M2 == [M1 EXCEPT !.agent_position_history[agent_id] = <<>>]
  IN release_task_after_reset(M2, agent_id)

\* One pass of the loop of _handle_waiting_agents.
handle_waiting_agent(M, agent_id) ==
  LET agent == M.agents[agent_id]
      command == M.shared[agent_id]
      to_barn == agent.status = "returning_to_barn" /\ command.action = "refill_pesticide"
      new_path == calculate_path(M, agent.position, command.barn_position)
      alt_pos == direct_step(agent.position, command.barn_position)
      recalc == recalculate_path(M, agent_id)
  IN IF to_barn /\ new_path # <<>>
     THEN [update_agent(M, agent_id, [path |-> new_path, path_index |-> 0,
                                      status |-> "returning_to_barn"])
             EXCEPT !.agent_position_history[agent_id] = <<>>,
                    !.recalculation_attempts[agent_id] = 0]
     ELSE IF to_barn /\ position_free(M, agent_id, alt_pos)
     THEN [update_agent(M, agent_id, [position |-> alt_pos, path |-> <<>>, path_index |-> 0,
                                      status |-> "returning_to_barn"])
             EXCEPT !.agent_position_history[agent_id] = <<>>,
                    !.recalculation_attempts[agent_id] = 0]
     ELSE IF to_barn
     THEN [M EXCEPT !.agent_position_history[agent_id] = <<>>]
     ELSE IF agent.current_task_id # NoTask /\ agent.current_task_id \in DOMAIN M.tasks
             /\ recalc.found
     THEN [recalc.M EXCEPT !.agent_position_history[agent_id] = <<>>]
     ELSE waiting_reset(M, agent_id)

RECURSIVE handle_waiting_loop(_, _, _)
handle_waiting_loop(M, ids, n) ==
  IF n = 0 THEN M
  ELSE handle_waiting_agent(handle_waiting_loop(M, ids, n - 1), ids[n])

handle_waiting_agents(M) ==
  handle_waiting_loop(M, waiting_agents(M), Len(waiting_agents(M)))

ConflictResolver_execute(M) ==
  handle_waiting_agents(handle_stuck_agents(handle_failed_tasks(M)))

\* check_preconditions samples the positions itself (through
\* _detect_stuck_agents) unless a failed task answers the question first;
\* run tells whether execute() follows, M is the state check left behind.
ConflictResolver_check_preconditions(M) ==
  IF processable_failed_tasks(M) # <<>> THEN [M |-> M, run |-> TRUE]
  ELSE
    LET detected == detect_stuck_agents(M)
        waiting ==
          \E id \in DOMAIN detected.M.agents :
            /\ detected.M.agents[id].status = "waiting"
            /\ Len(detected.M.agent_position_history[id]) >= stuck_threshold
    IN [M |-> detected.M, run |-> detected.stuck # <<>> \/ waiting]

\* ------------------------------------------------------------------------
\* FumigatorAgent
\* ------------------------------------------------------------------------
max_waiting_steps == 2

\* Assignment to attributes of the agent object.
SetSelf(M, id, updates) == [M EXCEPT !.fumigators[id] = SetAttrs(@, updates)]

\* FumigatorAgent._check_collision: another agent is registered at pos.
check_collision(M, id, pos) ==
  \E other \in DOMAIN M.agents : other # id /\ M.agents[other].position = pos

\* KnowledgeBase.get_task_by_position: the first live task at the position,
\* NoTask when there is none.
get_task_by_position(M, pos) ==
  LET live == {i \in DOMAIN M.tasks :
                 M.tasks[i].position = pos /\ M.tasks[i].status \in LiveStatuses}
  IN IF live = {} THEN NoTask ELSE CHOOSE i \in live : \A j \in live : i <= j

on_task_completed(M, id, task_id) ==
  LET M1 == update_task(M, task_id, [status |-> "completed"])
      M2 == SetSelf(M1, id, [current_task_id |-> NoTask,
                             tasks_completed |-> M1.fumigators[id].tasks_completed + 1,
                             status |-> "idle"])
  IN delete_shared(M2, id)

on_task_failed(M, id, task_id) ==
  LET M1 == IF task_id \in DOMAIN M.tasks
            THEN update_task(M, task_id,
                             [status |-> "failed",
                              failure_count |-> M.tasks[task_id].failure_count + 1,
                              last_failure_at |-> Now(M)])
            ELSE M
      M2 == SetSelf(M1, id, [current_task_id |-> NoTask, status |-> "idle"])
  IN delete_shared(M2, id)

\* The fumigation of the destination that takes nothing from the tank.
fumigate_at_position_unmetered(M, id, position, task_id) ==
  LET level == get_infestation(M, position)
      self == M.fumigators[id]
  IN IF level <= 0 THEN on_task_completed(M, id, task_id)
     ELSE on_task_completed(
            SetSelf(update_infestation(M, position, 0), id,
                    [fields_fumigated |-> self.fields_fumigated + 1,
                     status |-> "fumigating"]),
            id, task_id)

fumigate_at_position(M, id, position, task_id) ==
  LET level == get_infestation(M, position)
      self == M.fumigators[id]
  IN IF level <= 0 THEN on_task_completed(M, id, task_id)
     ELSE IF self.pesticide_level < level THEN on_task_failed(M, id, task_id)
     ELSE on_task_completed(
            SetSelf(update_infestation(M, position, 0), id,
                    [pesticide_level |-> self.pesticide_level - level,
                     fields_fumigated |-> self.fields_fumigated + 1,
                     status |-> "fumigating"]),
            id, task_id)

\* Sum over the path cells from index from (0-based) of the infestation of
\* the FIELD cells that have at least 10.
RECURSIVE path_pesticide(_, _, _)
path_pesticide(M, path, from) ==
  IF from >= Len(path) THEN 0
  ELSE LET p == path[from + 1]
       IN (IF InBounds(M.world, p) /\ Tile(M.world, p) = FIELD /\ get_infestation(M, p) >= 10
           THEN get_infestation(M, p) ELSE 0)
          + path_pesticide(M, path, from + 1)

\* _fumigate_all_possible_in_path: ok is the returned boolean.
fumigate_all_possible_in_path(M, id) ==
  LET agent_state == M.agents[id]
      self == M.fumigators[id]
      total_pesticide_needed ==
        path_pesticide(M, agent_state.path, agent_state.path_index)
        + (IF self.current_task_id \in DOMAIN M.tasks
           THEN M.tasks[self.current_task_id].infestation_level ELSE 0)
      level == get_infestation(M, self.position)
      M1 == SetSelf(update_infestation(M, self.position, 0), id,
                    [pesticide_level |-> self.pesticide_level - level,
                     fields_fumigated |-> self.fields_fumigated + 1])
      task_at_pos == get_task_by_position(M1, self.position)
      M2 == IF task_at_pos = NoTask THEN M1
            ELSE IF self.current_task_id = task_at_pos
            THEN on_task_completed(update_task(M1, task_at_pos, [status |-> "completed"]),
                                   id, task_at_pos)
            ELSE update_task(M1, task_at_pos, [status |-> "completed"])
  IN IF agent_state.path = <<>> THEN [M |-> M, ok |-> TRUE]
     ELSE IF self.pesticide_level < total_pesticide_needed THEN [M |-> M, ok |-> FALSE]
     ELSE IF level >= 10 /\ self.pesticide_level >= level THEN [M |-> M2, ok |-> TRUE]
     ELSE [M |-> M, ok |-> TRUE]

cancel_task_and_return_to_barn(M, id) ==
  LET self == M.fumigators[id]
      M1 == IF self.current_task_id # NoTask /\ self.current_task_id \in DOMAIN M.tasks
            THEN update_task(M, self.current_task_id,
                             [status |-> "pending", assigned_agent_id |-> NoAgent])
            ELSE M
      M2 == SetSelf(M1, id, [current_task_id |-> NoTask, status |-> "returning_to_barn"])
      M3 == update_agent(M2, id, [path |-> <<>>, path_index |-> 0])
  IN set_shared(M3, id, RefillCommand(find_nearest_barn(M.world, self.position), TRUE))

\* _update_field_weight: 1.5 on the first crossing of a FIELD cell, times
\* 1.5 on each later one, capped at 100.
update_field_weight(M, position) ==
  IF Tile(M.world, position) = FIELD
  THEN [M EXCEPT !.field_weights[position] =
          IF @ + 1 > MaxWeightSteps THEN MaxWeightSteps ELSE @ + 1]
  ELSE M

execute_task(M, id, command) ==
  LET M1 == SetSelf(M, id, [current_task_id |-> command.task_id, status |-> "executing_task"])
      agent_state == M1.agents[id]
      next_pos == agent_state.path[agent_state.path_index + 1]
      waiting == M1.fumigators[id].waiting_steps + 1
      blocked == SetSelf(M1, id, [waiting_steps |-> waiting, status |-> "waiting"])
      fumigated == fumigate_all_possible_in_path(M1, id)
      moved ==
        LET M2 == update_field_weight(SetSelf(fumigated.M, id, [waiting_steps |-> 0]), next_pos)
            M3 == SetSelf(M2, id, [position |-> next_pos, status |-> "moving"])
        IN update_agent(M3, id, [path_index |-> M3.agents[id].path_index + 1])
  IN IF agent_state.path # <<>> /\ Len(agent_state.path) > agent_state.path_index
     THEN IF check_collision(M1, id, next_pos)
          THEN IF waiting >= max_waiting_steps
               THEN IF agent_state.path_index + 1 < Len(agent_state.path)
                    THEN SetSelf(update_agent(blocked, id,
                                              [path_index |-> agent_state.path_index + 1]),
                                 id, [waiting_steps |-> 0])
                    ELSE on_task_failed(blocked, id, command.task_id)
               ELSE blocked
          ELSE IF ~fumigated.ok THEN cancel_task_and_return_to_barn(fumigated.M, id)
          ELSE IF next_pos = command.task_position
               THEN fumigate_at_position(moved, id, command.task_position, command.task_id)
               ELSE moved
     ELSE IF M1.fumigators[id].position = command.task_position
          THEN fumigate_at_position(M1, id, command.task_position, command.task_id)
          ELSE on_task_failed(M1, id, command.task_id)

\* _move_towards_barn, following the stored path: every read of
\* agent_state after an update_agent sees the updated record.
move_along_path(M, id, barn_position) ==
  LET agent_state == M.agents[id]
      path == agent_state.path
      next_pos == path[agent_state.path_index + 1]
      new_path_index == agent_state.path_index + 1
      waiting == M.fumigators[id].waiting_steps + 1
      blocked == SetSelf(M, id, [waiting_steps |-> waiting, status |-> "waiting"])
      jump ==
        LET next_next_pos == path[new_path_index + 1]
        IN update_agent(
             SetSelf(update_agent(blocked, id, [path_index |-> new_path_index]), id,
                     [position |-> next_next_pos, status |-> "returning_to_barn",
                      waiting_steps |-> 0]),
             id, [path_index |-> new_path_index + 1])
      new_path == calculate_path(blocked, blocked.fumigators[id].position, barn_position)
      replanned == IF new_path # <<>>
                   THEN update_agent(blocked, id, [path |-> new_path, path_index |-> 0])
                   ELSE blocked
      restart ==
        update_agent(SetSelf(replanned, id, [position |-> new_path[1],
                                             status |-> "returning_to_barn",
                                             waiting_steps |-> 0]),
                     id, [path_index |-> 1])
      last_resort ==
        IF new_path_index < Len(replanned.agents[id].path)
        THEN SetSelf(update_agent(replanned, id, [path_index |-> new_path_index]), id,
                     [waiting_steps |-> 0])
        ELSE SetSelf(replanned, id, [waiting_steps |-> 0])
      step(M0) ==
        update_agent(SetSelf(M0, id, [waiting_steps |-> 0, position |-> next_pos,
                                      status |-> "returning_to_barn"]),
                     id, [path_index |-> M0.agents[id].path_index + 1])
  IN IF ~(Len(path) > agent_state.path_index) THEN M
     ELSE IF ~check_collision(M, id, next_pos) THEN step(M)
     ELSE IF waiting < max_waiting_steps THEN blocked
     ELSE IF new_path_index < Len(path) /\ ~check_collision(blocked, id, path[new_path_index + 1])
     THEN jump
     ELSE IF new_path # <<>> /\ ~check_collision(replanned, id, new_path[1])
     THEN restart
     ELSE step(last_resort)

\* _move_towards_barn without a path: one axis-aligned step, the other axis
\* after max_waiting_steps blocked steps.
move_directly(M, id, barn_position) ==
  LET self == M.fumigators[id]
      next_pos == direct_step(self.position, barn_position)
      horizontal == Abs(barn_position[1] - self.position[1])
                      > Abs(barn_position[2] - self.position[2])
      alt_pos ==
        IF horizontal
        THEN <<self.position[1],
               self.position[2] + (IF barn_position[2] > self.position[2] THEN 1 ELSE -1)>>
        ELSE <<self.position[1] + (IF barn_position[1] > self.position[1] THEN 1 ELSE -1),
               self.position[2]>>
      waiting == self.waiting_steps + 1
  IN IF ~check_collision(M, id, next_pos)
     THEN SetSelf(M, id, [waiting_steps |-> 0, position |-> next_pos,
                          status |-> "returning_to_barn"])
     ELSE IF waiting < max_waiting_steps
     THEN SetSelf(M, id, [waiting_steps |-> waiting, status |-> "waiting"])
     ELSE IF ~check_collision(M, id, alt_pos)
     THEN SetSelf(M, id, [position |-> alt_pos, waiting_steps |-> 0,
                          status |-> "returning_to_barn"])
     ELSE SetSelf(M, id, [waiting_steps |-> 0, status |-> "waiting"])

move_towards_barn(M, id, barn_position) ==
  IF M.agents[id].path # <<>> THEN move_along_path(M, id, barn_position)
  ELSE move_directly(M, id, barn_position)

execute_refill(M, id, command) ==
  IF M.fumigators[id].position # command.barn_position
  THEN SetSelf(move_towards_barn(M, id, command.barn_position), id,
               [status |-> "returning_to_barn"])
  ELSE delete_shared(
         emit_event(SetSelf(M, id, [pesticide_level |-> pesticide_capacity,
                                    status |-> "idle"]),
                    Event("agent_refilled", id, NoTask, NoPos, 0)),
         id)

\* BaseAgent.idle
idle(M, id) == SetSelf(M, id, [status |-> "idle"])

\* BaseAgent.step before the report: perceive the command and execute it.
agent_execute(M, id) ==
  LET command == M.shared[id]
  IN CASE command.action = "execute_task" -> execute_task(M, id, command)
       [] command.action = "refill_pesticide" -> execute_refill(M, id, command)
       [] OTHER -> idle(M, id)

\* What BaseAgent.report hands to update_agent: the agent's own values.
reported_state(self) ==
  [position |-> self.position, status |-> self.status,
   tasks_completed |-> self.tasks_completed,
   fields_fumigated |-> self.fields_fumigated]

\* FumigatorAgent.report: the agent's own values overwrite the stored ones.
report(M, id) ==
  LET self == M.fumigators[id]
      M1 == update_agent(M, id, reported_state(self))
  IN update_agent(M1, id, [pesticide_level |-> self.pesticide_level,
                           current_task_id |-> self.current_task_id])

\* BaseAgent.step: perceive, execute, report.
agent_step(M, id) == report(agent_execute(M, id), id)

\* ------------------------------------------------------------------------
\* ScoutAgent: what its scan of the 3x3 area around it reports
\* ------------------------------------------------------------------------
scan_radius == 1

\* for dz in range(-1, 2): for dx in range(-1, 2)
ScanArea(position) ==
  LET side == 2 * scan_radius + 1
  IN [k \in 1..(side * side) |->
        <<position[1] + ((k - 1) % side) - scan_radius,
          position[2] + ((k - 1) \div side) - scan_radius>>]

RECURSIVE scan_area(_, _, _, _)
\* _scan_area: every FIELD cell of the area not analysed before is marked,
\* and reported with its present infestation when that is positive.
scan_area(M, analyzed, area, n) ==
  IF n = 0 THEN [M |-> M, analyzed |-> analyzed]
  ELSE
    LET before == scan_area(M, analyzed, area, n - 1)
        pos == area[n]
    IN IF ~InBounds(M.world, pos) THEN before
       ELSE IF Tile(M.world, pos) # FIELD THEN before
       ELSE IF pos \in before.analyzed THEN before
       ELSE [M |-> IF get_infestation(before.M, pos) > 0
                   THEN emit_event(before.M, Event("field_discovered", NoAgent, NoTask, pos,
                                                   get_infestation(before.M, pos)))
                   ELSE before.M,
             analyzed |-> before.analyzed \cup {pos}]

\* ------------------------------------------------------------------------
\* The tick: FumigationModel.step inside the loop of run_simulation
\* ------------------------------------------------------------------------
MaxSteps == 75
ScoutWindow == 2
MinStepsBeforeCompletion == 50

BeginStep ==
  /\ pc = "step"
  /\ total_steps < MaxSteps
  /\ Unpack([Pack EXCEPT !.total_steps = @ + 1])
  /\ ks_to_activate' = SelectKnowledgeSources(Pack)
  /\ executed_ks_this_cycle' = {}
  /\ activation_count' = 0
  /\ UNCHANGED <<simulation_ready, analyzed_positions, faults, command_vars>>
  /\ agent_index' = 0
  /\ pc' = "cycle"

\* A scout standing on one of the cells of the world's scout_cells scans its
\* surroundings, between two ticks of the fumigation model.
ScoutScan ==
  /\ pc = "step"
  /\ Worlds[world].num_scouts > 0
  /\ total_steps < ScoutWindow
  /\ \E position \in Worlds[world].scout_cells :
       /\ Tile(world, position) # IMPASSABLE
       /\ LET scanned == scan_area(Pack, analyzed_positions, ScanArea(position),
                                   Len(ScanArea(position)))
          IN /\ scanned.analyzed # analyzed_positions
             /\ Unpack(scanned.M)
             /\ analyzed_positions' = scanned.analyzed
  /\ UNCHANGED <<ks_to_activate, executed_ks_this_cycle, activation_count, agent_index,
                 simulation_ready, faults, pc, command_vars>>

\* for-loop exhausted: range(max_steps) has no more steps.
StepLimit ==
  /\ pc = "step"
  /\ total_steps >= MaxSteps
  /\ pc' = "limit"
  /\ UNCHANGED <<world, agents, tasks, infestation, field_weights, events, shared,
                 fumigators, processed_assignments, agent_position_history,
                 recalculation_attempts, agent_targets, total_steps, ks_to_activate,
                 executed_ks_this_cycle, activation_count,
                 agent_index, simulation_ready, analyzed_positions, faults, command_vars>>

\* After a Knowledge Source was visited: the next one, or the agent pass.
Visited ==
  /\ ks_to_activate' = Tail(ks_to_activate)
  /\ pc' = IF Tail(ks_to_activate) = <<>> THEN "agents" ELSE "cycle"
  /\ agent_index' = IF Tail(ks_to_activate) = <<>> THEN 1 ELSE 0
  /\ UNCHANGED <<simulation_ready, analyzed_positions, command_vars>>

Visiting(name) == pc = "cycle" /\ ks_to_activate # <<>> /\ Head(ks_to_activate) = name

max_ks_activations_per_cycle == 10

\* The loop reaches check_preconditions() of the source: the limit of
\* activations is not reached and the source was not executed in this cycle.
Reached(name) ==
  /\ activation_count < max_ks_activations_per_cycle
  /\ name \notin executed_ks_this_cycle

\* execute() returned: the source is recorded and counted.
Executed(name) ==
  /\ executed_ks_this_cycle' = executed_ks_this_cycle \cup {name}
  /\ activation_count' = activation_count + 1

\* The source was skipped, or its execute() raised.
NotExecuted == UNCHANGED <<executed_ks_this_cycle, activation_count>>

TaskPlannerStep ==
  /\ Visiting("TaskPlannerKS")
  /\ IF Reached("TaskPlannerKS") /\ TaskPlanner_check_preconditions(Pack)
     THEN Unpack(TaskPlanner_execute(Pack)) /\ Executed("TaskPlannerKS")
     ELSE Unpack(Pack) /\ NotExecuted
  /\ Visited
  /\ UNCHANGED faults

TaskAllocatorStep ==
  /\ Visiting("TaskAllocatorKS")
  /\ \E checked \in {Reached("TaskAllocatorKS") /\ TaskAllocator_check_preconditions(Pack)} :
       IF checked
       THEN (\E N \in {TaskAllocator_execute(Pack)} : Unpack(N)) /\ Executed("TaskAllocatorKS")
       ELSE Unpack(Pack) /\ NotExecuted
  /\ Visited
  /\ UNCHANGED faults

ResourceManagerStep ==
  /\ Visiting("ResourceManagerKS")
  /\ IF Reached("ResourceManagerKS") /\ ResourceManager_check_preconditions(Pack)
     THEN Unpack(ResourceManager_execute(Pack)) /\ Executed("ResourceManagerKS")
     ELSE Unpack(Pack) /\ NotExecuted
  /\ Visited
  /\ UNCHANGED faults

PathPlannerStep ==
  /\ Visiting("PathPlannerKS")
  /\ IF Reached("PathPlannerKS") /\ PathPlanner_check_preconditions(Pack)
     THEN Unpack(PathPlanner_execute(Pack)) /\ Executed("PathPlannerKS")
     ELSE Unpack(Pack) /\ NotExecuted
  /\ Visited
  /\ UNCHANGED faults

ConflictResolverStep ==
  /\ Visiting("ConflictResolverKS")
  /\ IF Reached("ConflictResolverKS")
     THEN LET checked == ConflictResolver_check_preconditions(Pack)
          IN IF checked.run
             THEN Unpack(ConflictResolver_execute(checked.M)) /\ Executed("ConflictResolverKS")
             ELSE Unpack(checked.M) /\ NotExecuted
     ELSE Unpack(Pack) /\ NotExecuted
  /\ Visited
  /\ UNCHANGED faults

\* One agent of the agent pass.
FumigatorStep ==
  /\ pc = "agents"
  /\ agent_index \in DOMAIN agents
  /\ Unpack(agent_step(Pack, agent_index))
  /\ agent_index' = agent_index + 1
  /\ pc' = IF agent_index + 1 \in DOMAIN agents THEN "agents" ELSE "check"
  /\ UNCHANGED <<ks_to_activate, executed_ks_this_cycle, activation_count,
                 simulation_ready, analyzed_positions, faults, command_vars>>

\* get_statistics()['pending_tasks']
pending_tasks(M) == Cardinality({i \in DOMAIN M.tasks : M.tasks[i].status = "pending"})

TerminalStatuses == {"idle", "returning_to_barn", "refilling"}

all_agents_at_barn(M) ==
  \/ barn_positions(M.world) = <<>>
  \/ \A id \in DOMAIN M.agents :
       /\ \E k \in DOMAIN barn_positions(M.world) :
            barn_positions(M.world)[k] = M.agents[id].position
       /\ M.agents[id].status \in TerminalStatuses

\* The termination test of run_simulation: TRUE when the loop is left.
terminates(M, ready) ==
  IF pending_tasks(M) = 0 /\ ready /\ M.total_steps > MinStepsBeforeCompletion
  THEN all_agents_at_barn(M)
  ELSE /\ pending_tasks(M) = 0
       /\ M.total_steps > MinStepsBeforeCompletion
       /\ \A id \in DOMAIN M.agents : M.agents[id].status = "idle"

CheckTermination ==
  /\ pc = "check"
  /\ pc' = IF terminates(Pack, simulation_ready) THEN "completed" ELSE "step"
  /\ UNCHANGED <<world, agents, tasks, infestation, field_weights, events, shared,
                 fumigators, processed_assignments, agent_position_history,
                 recalculation_attempts, agent_targets, total_steps, ks_to_activate,
                 executed_ks_this_cycle, activation_count,
                 agent_index, simulation_ready, analyzed_positions, faults, command_vars>>

Next ==
  \/ ScoutScan
  \/ BeginStep
  \/ StepLimit
  \/ TaskPlannerStep
  \/ TaskAllocatorStep
  \/ ResourceManagerStep
  \/ PathPlannerStep
  \/ ConflictResolverStep
  \/ FumigatorStep
  \/ CheckTermination


Spec == Init /\ [][Next]_vars

\* ------------------------------------------------------------------------
\* Exceptions raised inside a Knowledge Source.  execute_cycle calls
\* check_preconditions() outside its try block and execute() inside it; the
\* writes execute() made before the exception stay in the KnowledgeBase.
\* ------------------------------------------------------------------------
MaxFaults == 1

\* check_preconditions() of the source being visited raises: the exception
\* leaves execute_cycle, Blackboard.step and FumigationModel.step, and is
\* caught by run_simulation, which marks the simulation failed and re-raises.
PreconditionFault ==
  /\ pc = "cycle"
  /\ ks_to_activate # <<>>
  /\ faults < MaxFaults
  /\ faults' = faults + 1
  /\ pc' = "failed"
  /\ UNCHANGED <<world, agents, tasks, infestation, field_weights, events, shared,
                 fumigators, processed_assignments, agent_position_history,
                 recalculation_attempts, agent_targets, total_steps, ks_to_activate,
                 executed_ks_this_cycle, activation_count,
                 agent_index, simulation_ready, analyzed_positions, command_vars>>

\* TaskAllocatorKS.execute raises after n of its writes: "except Exception"
\* in execute_cycle prints the error and the loop goes on to the next source.
TaskAllocatorFault ==
  /\ Visiting("TaskAllocatorKS")
  /\ faults < MaxFaults
  /\ Reached("TaskAllocatorKS")
  /\ TaskAllocator_check_preconditions(Pack)
  /\ \E writes \in {TaskAllocator_writes(Pack)} :
       \E n \in 0..(Len(writes) - 1) :
         \E N \in {ApplyWrites(Pack, writes, n)} : Unpack(N)
  /\ NotExecuted
  /\ Visited
  /\ faults' = faults + 1

\* ResourceManagerKS.execute raises after n of its writes.
ResourceManagerFault ==
  /\ Visiting("ResourceManagerKS")
  /\ faults < MaxFaults
  /\ Reached("ResourceManagerKS")
  /\ ResourceManager_check_preconditions(Pack)
  /\ \E writes \in {ResourceManager_writes(Pack)} :
       \E n \in 0..(Len(writes) - 1) :
         \E N \in {ApplyWrites(Pack, writes, n)} : Unpack(N)
  /\ NotExecuted
  /\ Visited
  /\ faults' = faults + 1

FaultNext ==
  \/ Next
  \/ PreconditionFault
  \/ TaskAllocatorFault
  \/ ResourceManagerFault

FaultSpec == Init /\ [][FaultNext]_vars

\* ------------------------------------------------------------------------
\* agent_system: a commanded action.  The simulation thread sends the command
\* to the renderer, waits for the confirmation with a timeout and executes
\* the action; the renderer confirms when it likes, or never; the websocket
\* consumer hands each confirmation to _receive_agent_confirmation.
\* ------------------------------------------------------------------------
\* timeout=5.0, in steps of the clock
ConfirmationTimeout == 2

\* _send_agent_command: the Event is created and stored under the agent's id.
SendAgentCommand ==
  /\ command_pc = "step"
  /\ command_count < MaxCommands
  /\ \E agent_id \in CommandAgents :
       /\ command_agent' = agent_id
       /\ pending_confirmations' =
            [pending_confirmations EXCEPT ![agent_id] = command_count + 1]
  /\ command_count' = command_count + 1
  /\ command_pc' = "send"
  /\ UNCHANGED <<confirmation_events, wait_left, confirmed, applied, delivered,
                 confirmations, consumer, sim_vars>>

\* _send_simulation_update: the group_send reaches the renderer, or fails and
\* the exception is printed.
SendSimulationUpdate ==
  /\ command_pc = "send"
  /\ \E sent \in BOOLEAN :
       delivered' = IF sent
                    THEN delivered \cup {[agent |-> command_agent, command |-> command_count]}
                    ELSE delivered
  /\ wait_left' = ConfirmationTimeout
  /\ command_pc' = "wait"
  /\ UNCHANGED <<pending_confirmations, confirmation_events, command_count,
                 command_agent, confirmed, applied, confirmations, consumer, sim_vars>>

\* The clock advances while the simulation thread is in confirmation_event.wait.
TimePasses ==
  /\ command_pc = "wait"
  /\ wait_left > 0
  /\ wait_left' = wait_left - 1
  /\ UNCHANGED <<pending_confirmations, confirmation_events, command_count,
                 command_agent, command_pc, confirmed, applied, delivered,
                 confirmations, consumer, sim_vars>>

\* confirmation_event.wait(timeout) returns: the flag is set, or the time is up.
WaitEnds == command_count \in confirmation_events \/ wait_left = 0

ConfirmationEventWait ==
  /\ command_pc = "wait"
  /\ WaitEnds
  /\ confirmed' = [confirmed EXCEPT ![command_count] = command_count \in confirmation_events]
  /\ command_pc' = "cleanup"
  /\ UNCHANGED <<pending_confirmations, confirmation_events, command_count,
                 command_agent, wait_left, applied, delivered, confirmations,
                 consumer, sim_vars>>

\* "if agent_id in pending_confirmations[simulation_id]: del ..."
DeleteConfirmationEvent ==
  /\ command_pc = "cleanup"
  /\ pending_confirmations' = [pending_confirmations EXCEPT ![command_agent] = NoEvent]
  /\ command_pc' = "apply"
  /\ UNCHANGED <<confirmation_events, command_count, command_agent, wait_left,
                 confirmed, applied, delivered, confirmations, consumer, sim_vars>>

\* _execute_move called only after a confirmation.
execute_move_when_confirmed(was_confirmed) == IF was_confirmed THEN 1 ELSE 0

\* How many times _move_towards_target calls _execute_move after
\* _send_agent_command returned was_confirmed.
execute_move_calls(was_confirmed) == IF was_confirmed THEN 1 ELSE 1

ExecuteMove ==
  /\ command_pc = "apply"
  /\ applied' = [applied EXCEPT ![command_count] =
                   @ + execute_move_calls(confirmed[command_count])]
  /\ command_pc' = "step"
  /\ UNCHANGED <<pending_confirmations, confirmation_events, command_count,
                 command_agent, wait_left, confirmed, delivered, confirmations,
                 consumer, sim_vars>>

\* The renderer sends command_confirmation for a command it received.
RendererConfirms ==
  /\ \E d \in delivered :
       /\ delivered' = delivered \ {d}
       /\ confirmations' = confirmations \cup {d}
  /\ UNCHANGED <<pending_confirmations, confirmation_events, command_count,
                 command_agent, command_pc, wait_left, confirmed, applied,
                 consumer, sim_vars>>

\* SimulationConsumer.receive and the test of _receive_agent_confirmation:
\* a confirmation for an agent without an entry is dropped.
ReceiveAgentConfirmation ==
  /\ consumer = NoConfirmation
  /\ \E c \in confirmations :
       /\ confirmations' = confirmations \ {c}
       /\ consumer' = IF pending_confirmations[c.agent] # NoEvent
                      THEN [agent |-> c.agent, command |-> c.command, event |-> NoEvent]
                      ELSE NoConfirmation
  /\ UNCHANGED <<pending_confirmations, confirmation_events, command_count,
                 command_agent, command_pc, wait_left, confirmed, applied,
                 delivered, sim_vars>>

\* "event = pending_confirmations[simulation_id][agent_id]": the entry found
\* now, or KeyError when the simulation thread deleted it after the test.
LookUpConfirmationEvent ==
  /\ consumer # NoConfirmation
  /\ consumer.event = NoEvent
  /\ consumer' = IF pending_confirmations[consumer.agent] # NoEvent
                 THEN [consumer EXCEPT !.event = pending_confirmations[consumer.agent]]
                 ELSE NoConfirmation
  /\ UNCHANGED <<pending_confirmations, confirmation_events, command_count,
                 command_agent, command_pc, wait_left, confirmed, applied,
                 delivered, confirmations, sim_vars>>

\* "event.set()"
SetConfirmationEvent ==
  /\ consumer # NoConfirmation
  /\ consumer.event # NoEvent
  /\ confirmation_events' = confirmation_events \cup {consumer.event}
  /\ consumer' = NoConfirmation
  /\ UNCHANGED <<pending_confirmations, command_count, command_agent, command_pc,
                 wait_left, confirmed, applied, delivered, confirmations, sim_vars>>

CommandNext ==
  \/ SendAgentCommand
  \/ SendSimulationUpdate
  \/ TimePasses
  \/ ConfirmationEventWait
  \/ DeleteConfirmationEvent
  \/ ExecuteMove
  \/ RendererConfirms
  \/ ReceiveAgentConfirmation
  \/ LookUpConfirmationEvent
  \/ SetConfirmationEvent

\* ------------------------------------------------------------------------
\* ResourceManagerKS on its own: the blackboard of the second world in which
\* the first fumigator has reported a level, a status and a position, and
\* holds one of the two tasks or none; the control component is about to
\* visit ResourceManagerKS.
\* ------------------------------------------------------------------------
ReportedLevels == {5, 10, 11, 39, 40, 59, 60, 99, 100, 1000}
ReportedStatuses == {"idle", "assigned", "moving", "executing_task", "waiting",
                     "returning_to_barn"}
ReportedFailures == {0, 2}

ReportedBlackboard(level, status, position, held, failures) ==
  LET M == setup(2)
      agent == [M.agents[1] EXCEPT !.pesticide_level = level, !.status = status,
                                   !.position = position, !.current_task_id = held]
      self == [M.fumigators[1] EXCEPT !.pesticide_level = level, !.status = status,
                                      !.position = position, !.current_task_id = held]
      held_tasks == IF held = NoTask THEN M.tasks
                    ELSE [M.tasks EXCEPT ![held].status = "assigned",
                                         ![held].assigned_agent_id = 1,
                                         ![held].assigned_at = 0,
                                         ![held].failure_count = failures]
  IN [M EXCEPT !.agents[1] = agent, !.fumigators[1] = self, !.tasks = held_tasks]

ResourceInit ==
  /\ InitCommands
  /\ \E level \in ReportedLevels, status \in ReportedStatuses, position \in Cells(2),
        held \in {NoTask} \cup DOMAIN setup(2).tasks, failures \in ReportedFailures :
       \E M \in {ReportedBlackboard(level, status, position, held, failures)} :
         /\ world = M.world
         /\ agents = M.agents
         /\ tasks = M.tasks
         /\ infestation = M.infestation
         /\ field_weights = M.field_weights
         /\ events = M.events
         /\ shared = M.shared
         /\ fumigators = M.fumigators
         /\ processed_assignments = {}
         /\ agent_position_history = M.agent_position_history
         /\ recalculation_attempts = M.recalculation_attempts
         /\ agent_targets = M.agent_targets
  /\ total_steps = 1
  /\ ks_to_activate = <<"ResourceManagerKS">>
  /\ executed_ks_this_cycle = {}
  /\ activation_count = 0
  /\ agent_index = 0
  /\ simulation_ready = FALSE
  /\ analyzed_positions = {}
  /\ faults = 0
  /\ pc = "cycle"

ResourceSpec == ResourceInit /\ [][ResourceManagerStep]_vars

\* ------------------------------------------------------------------------
\* PathPlannerKS on its own: the blackboard of the eleventh world in which
\* the fields have been crossed a number of times, the fumigator has
\* reported a position and TaskAllocatorKS has just given it one of the
\* tasks; the control component is about to visit PathPlannerKS.
\* ------------------------------------------------------------------------
PathWorld == CHOOSE w \in DOMAIN Worlds : Len(Worlds[w].grid) > 2
CrossedFields == {<<0, 1>>, <<1, 2>>, <<2, 2>>}
Crossings == {0, 5, MaxWeightSteps}

AssignedBlackboard(start, task_id, crossed) ==
  LET M == [setup(PathWorld) EXCEPT !.total_steps = 1]
      M0 == [M EXCEPT !.agents[1].position = start, !.fumigators[1].position = start,
                      !.field_weights = [p \in Cells(PathWorld) |->
                                           IF p \in CrossedFields THEN crossed[p] ELSE 0]]
  IN ApplyWrites(M0,
       << TaskWrite(task_id, [status |-> "assigned", assigned_agent_id |-> 1,
                              assigned_at |-> Now(M0)]),
          AgentWrite(1, [current_task_id |-> task_id, status |-> "assigned"]),
          SharedWrite(1, [NoCommand EXCEPT !.action = "execute_task",
                                           !.task_id = task_id,
                                           !.task_position = M0.tasks[task_id].position]) >>,
       3)

PathInit ==
  /\ InitCommands
  /\ \E start \in Cells(PathWorld), task_id \in DOMAIN setup(PathWorld).tasks,
        crossed \in [CrossedFields -> Crossings] :
       \E M \in {AssignedBlackboard(start, task_id, crossed)} :
         /\ world = M.world
         /\ agents = M.agents
         /\ tasks = M.tasks
         /\ infestation = M.infestation
         /\ field_weights = M.field_weights
         /\ events = M.events
         /\ shared = M.shared
         /\ fumigators = M.fumigators
         /\ processed_assignments = {}
         /\ agent_position_history = M.agent_position_history
         /\ recalculation_attempts = M.recalculation_attempts
         /\ agent_targets = M.agent_targets
  /\ total_steps = 1
  /\ ks_to_activate = <<"PathPlannerKS">>
  /\ executed_ks_this_cycle = {}
  /\ activation_count = 0
  /\ agent_index = 0
  /\ simulation_ready = FALSE
  /\ analyzed_positions = {}
  /\ faults = 0
  /\ pc = "cycle"

PathSpec == PathInit /\ [][PathPlannerStep]_vars

\* The channel is exercised in the first world.
CommandInit == InitCommands /\ InitWorld(1)

\* The simulation thread keeps running and the clock keeps advancing; nothing
\* is assumed of the renderer or of the consumer.
CommandSpec ==
  /\ CommandInit
  /\ [][CommandNext]_vars
  /\ WF_vars(TimePasses)
  /\ WF_vars(ConfirmationEventWait)
  /\ WF_vars(DeleteConfirmationEvent)
  /\ WF_vars(ExecuteMove)

\* ------------------------------------------------------------------------
\* Properties
\* ------------------------------------------------------------------------
\* The tasks at position p that are Pending, Assigned or InProgress.
LiveTasksAt(p) ==
  {i \in DOMAIN tasks : tasks[i].position = p /\ tasks[i].status \in LiveStatuses}

TickBoundary == pc \in {"step", "completed", "limit"}

\* The agent holds a task that is assigned to it and is Assigned or InProgress.
HoldsAssignedTask(id) ==
  /\ agents[id].current_task_id \in DOMAIN tasks
  /\ tasks[agents[id].current_task_id].assigned_agent_id = id
  /\ tasks[agents[id].current_task_id].status \in {"assigned", "in_progress"}

\* C2: at every tick boundary an agent's current_task_id is set exactly when the
\* task it names is assigned to that agent with status assigned or in_progress,
\* and every assigned or in_progress task is held by its assignee.
CurrentTaskIffAssigned ==
  TickBoundary =>
    /\ \A id \in DOMAIN agents :
         (agents[id].current_task_id # NoTask) <=> HoldsAssignedTask(id)
    /\ \A t \in DOMAIN tasks :
         tasks[t].status \in {"assigned", "in_progress"} =>
           /\ tasks[t].assigned_agent_id \in DOMAIN agents
           /\ agents[tasks[t].assigned_agent_id].current_task_id = t

\* A task that reached its end: Completed, or Failed for good.
Settled(t) ==
  \/ tasks[t].status = "completed"
  \/ tasks[t].status = "failed" /\ tasks[t].failure_count >= FailureCap

\* C3: every task reaches Completed or permanently Failed within a bounded
\* number of ticks: when the run loop is left, by completion or by the step
\* limit, no task is still pending, assigned or in_progress.
AllTasksSettledWhenRunEnds ==
  pc \in {"completed", "limit"} => \A t \in DOMAIN tasks : Settled(t)

\* The deadlock groups _handle_stuck_agents finds when ConflictResolverKS is
\* visited in the current state (none when execute() does not follow).
DeadlocksHandled ==
  LET checked == ConflictResolver_check_preconditions(Pack)
      detected == detect_stuck_agents(handle_failed_tasks(checked.M))
  IN IF checked.run THEN detect_bidirectional_deadlocks(detected.M, detected.stuck)
     ELSE <<>>

\* Agent reset is idle after the step and the task it held before the step is
\* pending with no assignee; agent other is not idle after the step.
OneOfPairReset(reset, other) ==
  /\ agents'[reset].status = "idle"
  /\ agents[reset].current_task_id \in DOMAIN tasks =>
       /\ tasks'[agents[reset].current_task_id].status = "pending"
       /\ tasks'[agents[reset].current_task_id].assigned_agent_id = NoAgent
  /\ agents'[other].status # "idle"

\* C6: when ConflictResolverKS handles two stuck agents that each want the
\* other's cell, its step resets exactly one of the two to idle, releases that
\* agent's task to pending with the assignee cleared, and leaves the other
\* member not idle.
DeadlockResetsOneAndReleasesTask ==
  [][Visiting("ConflictResolverKS") =>
       \A k \in DOMAIN DeadlocksHandled :
         \/ OneOfPairReset(DeadlocksHandled[k][1], DeadlocksHandled[k][2])
         \/ OneOfPairReset(DeadlocksHandled[k][2], DeadlocksHandled[k][1])]_vars

\* The agent stands on a barn cell with a terminal status.
AtBarn(id) ==
  /\ Tile(world, agents[id].position) = BARN
  /\ agents[id].status \in TerminalStatuses

\* C5: the run loop is left before the step limit only in a state where no task
\* is pending, assigned or in_progress and every agent stands on a barn cell
\* with a terminal status.
CompleteOnlyWhenSettledAndHome ==
  pc = "completed" =>
    /\ \A t \in DOMAIN tasks : tasks[t].status \notin LiveStatuses
    /\ \A id \in DOMAIN agents : AtBarn(id)

\* The pesticide _estimate_pesticide_needed asks for the trip of agent id to task t.
TripEstimate(id, t) ==
  estimate_pesticide_needed(Pack, agents[id].position, tasks[t].position,
                            tasks[t].infestation_level)

\* C4: TaskAllocatorKS never assigns a task to an agent whose pesticide level is
\* below the estimate for the whole trip (destination plus the sampled field
\* cells of infestation >= 10, with the 5% margin).
NeverAssignsBeyondPesticide ==
  [][Visiting("TaskAllocatorKS") =>
       \A id \in DOMAIN agents : \A t \in DOMAIN tasks :
         (/\ tasks[t].status = "pending"
          /\ tasks'[t].status = "assigned"
          /\ tasks'[t].assigned_agent_id = id)
         => agents[id].pesticide_level >= TripEstimate(id, t)]_vars

\* TaskAllocatorKS was just visited with an idle agent that passes the minimum
\* of 10 and an assignable task whose trip needs more than the agent carries:
\* the two are left unpaired.
WitnessUnpairedForLackOfPesticide ==
  /\ pc = "cycle"
  /\ ks_to_activate # <<>>
  /\ Head(ks_to_activate) = "ResourceManagerKS"
  /\ \E id \in DOMAIN agents :
       /\ agents[id].status = "idle"
       /\ agents[id].pesticide_level >= MinPesticideForTask
       /\ \E k \in DOMAIN get_assignable_tasks(Pack) :
            agents[id].pesticide_level < TripEstimate(id, get_assignable_tasks(Pack)[k])

\* The TaskAssigned events PathPlannerKS reads in the current state.
RecentAssignments == get_recent_events(Pack, "task_assigned", AssignmentEventsLimit)

\* How many PathCalculated events the list es holds for the pair key.
PathCalculatedCount(es, key) ==
  Cardinality({i \in DOMAIN es : /\ es[i].event_type = "path_calculated"
                                 /\ es[i].agent_id = key[1]
                                 /\ es[i].task_id = key[2]})

\* Every assignment of the agent that PathPlannerKS can read is cached.
AllAssignmentsCached(agent_id) ==
  \A i \in DOMAIN RecentAssignments :
    RecentAssignments[i].agent_id = agent_id =>
      <<agent_id, RecentAssignments[i].task_id>> \in processed_assignments

\* C7: a visit of PathPlannerKS while a pair is in processed_assignments emits
\* no further PathCalculated event for that pair, and leaves the agent's path,
\* path_index and command alone unless another, uncached, assignment of the
\* same agent is processed.
CachedPairIsNotRecomputed ==
  [][Visiting("PathPlannerKS") =>
       \A key \in processed_assignments :
         /\ PathCalculatedCount(events', key) <= PathCalculatedCount(events, key)
         /\ AllAssignmentsCached(key[1]) =>
              /\ agents'[key[1]].path = agents[key[1]].path
              /\ agents'[key[1]].path_index = agents[key[1]].path_index
              /\ shared'[key[1]] = shared[key[1]]]_vars

\* PathPlannerKS has just processed a new pair (its PathCalculated event is the
\* last event) in a visit that also read the assignment of a pair whose path
\* was calculated in an earlier tick.
WitnessSecondActivation ==
  /\ pc = "cycle"
  /\ ks_to_activate # <<>>
  /\ Head(ks_to_activate) = "ConflictResolverKS"
  /\ events # <<>>
  /\ events[Len(events)].event_type = "path_calculated"
  /\ \E i \in DOMAIN events : \E j \in DOMAIN events : \E k \in DOMAIN RecentAssignments :
       /\ i < j
       /\ events[i].event_type = "path_calculated"
       /\ events[j].event_type = "task_assigned"
       /\ events[j].agent_id = events[Len(events)].agent_id
       /\ events[j].task_id = events[Len(events)].task_id
       /\ <<events[i].agent_id, events[i].task_id>> \in processed_assignments
       /\ <<events[i].agent_id, events[i].task_id>>
            # <<events[j].agent_id, events[j].task_id>>
       /\ RecentAssignments[k].agent_id = events[i].agent_id
       /\ RecentAssignments[k].task_id = events[i].task_id

\* The agent whose turn it is reads an execute_task command for a task that was
\* reverted to pending and not assigned again.
ReadsCancelledTask ==
  /\ pc = "agents"
  /\ agent_index \in DOMAIN agents
  /\ shared[agent_index].action = "execute_task"
  /\ shared[agent_index].task_id \in DOMAIN tasks
  /\ tasks[shared[agent_index].task_id].status = "pending"

\* C10: an agent that reads its command after its task was reverted to pending
\* does not act on the task: in its step it does not move, does not treat the
\* task's cell, and neither completes the task nor marks it failed.
AgentObservesCancellation ==
  [][ReadsCancelledTask =>
       /\ fumigators'[agent_index].position = fumigators[agent_index].position
       /\ infestation'[tasks[shared[agent_index].task_id].position]
            = infestation[tasks[shared[agent_index].task_id].position]
       /\ tasks'[shared[agent_index].task_id].status = "pending"]_vars

\* C8: a fault of a Knowledge Source during its activation is caught at the
\* scheduler: from the scheduler's cycle the tick always goes on, to the next
\* activated source in priority order or to the pass over the agents.
FaultNeverAbortsTick ==
  [][pc = "cycle" =>
       /\ pc' \in {"cycle", "agents"}
       /\ ks_to_activate' = Tail(ks_to_activate)]_vars

\* The data-model invariants of the KnowledgeBase: one live task per position
\* at most, and current_task_id set exactly for a task that is assigned or
\* in_progress with that agent as its assignee.
DataModelInvariants ==
  /\ \A p \in Cells(world) : Cardinality(LiveTasksAt(p)) <= 1
  /\ \A id \in DOMAIN agents :
       (agents[id].current_task_id # NoTask) <=> HoldsAssignedTask(id)
  /\ \A t \in DOMAIN tasks :
       tasks[t].status \in {"assigned", "in_progress"} =>
         /\ tasks[t].assigned_agent_id \in DOMAIN agents
         /\ agents[tasks[t].assigned_agent_id].current_task_id = t

\* C9: a Knowledge Source that faults part-way through execute() leaves the
\* KnowledgeBase in a state that satisfies the data-model invariants, when the
\* state it started from did.
FaultPreservesDataModel ==
  [][(faults' # faults /\ DataModelInvariants) => DataModelInvariants']_vars

\* Scenario A: world 1 (one field of infestation 50, one agent with a full tank
\* at the barn, three road cells between them) with no discovery reported.
ScenarioA == world = 1 /\ analyzed_positions = {}

\* The length d of the agent's path to the field, in moves.
ScenarioDistance == Len(calculate_path(setup(1), <<0, 0>>, <<4, 0>>)) - 1

\* C11: in Scenario A the task is completed, the agent has treated one field
\* and the infestation of the cell is 0 once d ticks of travel, one tick of
\* treatment and the two ticks of assignment and path planning have passed.
TaskCompletedWithinPathLength ==
  (ScenarioA /\ TickBoundary /\ total_steps >= ScenarioDistance + 3) =>
    /\ tasks[1].status = "completed"
    /\ fumigators[1].fields_fumigated = 1
    /\ infestation[<<4, 0>>] = 0

\* The dynamic weight stored for a cell, in units of 1/WeightUnit.
DynamicWeight(p) == FieldWeight(field_weights[p])

\* C12: in every reachable state the infestation of every cell lies in
\* [0, 100] and its dynamic weight lies in [0, 100.0], the maximum of
\* _update_field_weight.
InfestationAndWeightInRange ==
  \A p \in Cells(world) :
    /\ infestation[p] >= 0 /\ infestation[p] <= 100
    /\ DynamicWeight(p) >= 0 /\ DynamicWeight(p) <= 100 * WeightUnit

\* A cell was treated (its infestation went from positive to 0) and the
\* crossing that would take a weight past the maximum has happened.
WitnessTreatedAndWeightAtMaximum ==
  /\ \E p \in Cells(world) :
       Worlds[world].infestation_grid[p[2] + 1][p[1] + 1] > 0 /\ infestation[p] = 0
  /\ \E p \in Cells(world) : field_weights[p] = MaxWeightSteps

\* An agent enters cell p in this step: its own position changes to p.
Traversed(p) ==
  \E id \in DOMAIN fumigators :
    fumigators'[id].position = p /\ fumigators[id].position # p

\* C13: the weight of a FIELD cell counts its traversals: a step in which an
\* agent enters the cell takes the weight from 0 to 1.5 or multiplies it by 1.5,
\* up to the maximum, and a step in which no agent enters it leaves it as it is;
\* so after n traversals the weight is min(100.0, 1.5 * 1.5^(n-1)).
WeightCountsTraversals ==
  [][\A p \in Cells(world) :
       field_weights'[p] =
         IF Tile(world, p) = FIELD /\ Traversed(p)
         THEN (IF field_weights[p] + 1 > MaxWeightSteps THEN MaxWeightSteps
               ELSE field_weights[p] + 1)
         ELSE field_weights[p]]_vars

\* The longest time, in ticks, between taking a snapshot of the KnowledgeBase
\* and replaying from it.
MaxReplayDelay == 1

\* The TaskAllocator is about to be visited by the control cycle.
AllocatorReached == Visiting("TaskAllocatorKS")

\* C14: a run replayed from the snapshot of the KnowledgeBase taken when the
\* TaskAllocator is reached, with the same events, decides the same
\* (agent, task) pairs in the same order in that tick as the original run,
\* whatever the time that passed between the snapshot and the replay.
ReplayReproducesAllocation ==
  AllocatorReached =>
    \A delay \in 0..MaxReplayDelay :
      TaskAllocator_assignments_at(Pack, Now(Pack) + delay) = TaskAllocator_assignments(Pack)

\* The action of command c was executed exactly once.
AppliedOnce(c) == applied[c] = 1
\* The simulation thread has finished the commanded action of command c.
ActionFinished(c) == c < command_count \/ (c = command_count /\ command_pc = "step")
\* The simulation thread is waiting for the confirmation of command c.
WaitingFor(c) == c = command_count /\ command_pc = "wait"

\* C15: for every command sent with a wait for its confirmation the wait
\* ends, by the confirmation or by the timeout, and the action is then
\* executed exactly once: never twice, and once when the commanded action
\* has finished, whenever the confirmation arrives and if it never does.
WaitEndsAndActionAppliedOnce ==
  /\ [](\A c \in 1..MaxCommands :
          /\ applied[c] <= 1
          /\ ActionFinished(c) => AppliedOnce(c))
  /\ \A c \in 1..MaxCommands : WaitingFor(c) ~> (ActionFinished(c) /\ AppliedOnce(c))

\* A command timed out and was executed; its confirmation arrived late and
\* set the Event of the agent's next command, which was executed once as
\* confirmed while the renderer had not confirmed it.
WitnessLateConfirmation ==
  \E c \in 1..MaxCommands :
    /\ c < command_count
    /\ ~confirmed[c] /\ AppliedOnce(c)
    /\ confirmed[command_count] /\ AppliedOnce(command_count)
    /\ [agent |-> command_agent, command |-> command_count] \in delivered

\* The registered Knowledge Source of that name.
Registered(name) ==
  KnowledgeSources[CHOOSE i \in DOMAIN KnowledgeSources : KnowledgeSources[i].name = name]

\* check_preconditions() of the source in the current state.
PreconditionsHold(name) ==
  CASE name = "TaskPlannerKS" -> TaskPlanner_check_preconditions(Pack)
    [] name = "TaskAllocatorKS" -> TaskAllocator_check_preconditions(Pack)
    [] name = "ResourceManagerKS" -> ResourceManager_check_preconditions(Pack)
    [] name = "PathPlannerKS" -> PathPlanner_check_preconditions(Pack)
    [] OTHER -> ConflictResolver_check_preconditions(Pack).run

\* The source executes in this step.
Executes(name) ==
  /\ activation_count' = activation_count + 1
  /\ Visiting(name)

\* C16: in a control cycle a source that executes has not executed before in
\* the cycle, its check_preconditions holds in the state in which it is
\* reached, every source executed before it in the cycle has a higher or equal
\* priority, and the executions of the cycle never number more than 10.
SourcesRunOnceInPriorityOrder ==
  [][/\ \A i \in DOMAIN KnowledgeSources :
          Executes(KnowledgeSources[i].name) =>
            /\ KnowledgeSources[i].name \notin executed_ks_this_cycle
            /\ executed_ks_this_cycle' =
                 executed_ks_this_cycle \cup {KnowledgeSources[i].name}
            /\ PreconditionsHold(KnowledgeSources[i].name)
            /\ \A other \in executed_ks_this_cycle :
                 Registered(other).priority >= KnowledgeSources[i].priority
     /\ activation_count' <= max_ks_activations_per_cycle
     /\ activation_count' = Cardinality(executed_ks_this_cycle')]_vars

\* A cycle has ended in which four sources executed, the PathPlanner among them.
WitnessFourSourcesExecuted ==
  /\ pc = "agents"
  /\ activation_count = 4
  /\ "PathPlannerKS" \in executed_ks_this_cycle

\* The control cycle of the next tick gathers its events in this step.
GathersEvents == pc = "step" /\ pc' = "cycle"
\* The events get_recent_events(limit=100) returns to the cycle.
GatheredEvents == LastN(events, RecentEventsLimit)
\* The event was emitted after the previous cycle gathered its events: during
\* the tick that has just ended, or between that tick and this one.
EmittedSincePreviousCycle(e) == e.timestamp >= total_steps

\* C17: every event a control cycle gathers was emitted since the previous
\* cycle gathered its events, so no event is gathered by two cycles, and a
\* source that does not always run is chosen only in a cycle that gathers an
\* event of one of its trigger types emitted since the previous cycle.
EventGatheredByOneCycleOnly ==
  [][GathersEvents =>
       /\ \A k \in DOMAIN GatheredEvents : EmittedSincePreviousCycle(GatheredEvents[k])
       /\ \A i \in DOMAIN KnowledgeSources :
            (/\ ~KnowledgeSources[i].always_run
             /\ \E j \in DOMAIN ks_to_activate' : ks_to_activate'[j] = KnowledgeSources[i].name)
            => \E k \in DOMAIN GatheredEvents :
                 /\ GatheredEvents[k].event_type \in KnowledgeSources[i].triggers
                 /\ EmittedSincePreviousCycle(GatheredEvents[k])]_vars

\* A Knowledge Source has written the command in the agent's slot during the
\* control cycle in progress: the TaskAllocator (with its task_assigned event)
\* or the ResourceManager (with its agent_low_resource event).
WrittenThisCycle(id) ==
  /\ pc = "cycle"
  /\ \E k \in DOMAIN events :
       /\ events[k].timestamp = total_steps
       /\ events[k].agent_id = id
       /\ \/ /\ events[k].event_type = "task_assigned"
             /\ shared[id].action = "execute_task"
             /\ shared[id].task_id = events[k].task_id
          \/ /\ events[k].event_type = "agent_low_resource"
             /\ shared[id].action = "refill_pesticide"

\* The same command, with or without its path.
SameCommand(c, d) == c.action = d.action /\ c.task_id = d.task_id

ConsumesCommand(id) ==
  /\ pc = "agents"
  /\ agent_index = id
  /\ shared[id] # NoCommand

\* C19: the command an agent reads at the start of its step is no longer in
\* its slot when the step ends, so it is not delivered to the agent again in
\* a later tick.
ConsumedCommandLeavesSlot ==
  [][\A id \in DOMAIN shared :
       ConsumesCommand(id) => shared'[id] # shared[id]]_vars

\* It is the agent's turn in the agent pass: its step ends with its report.
Reports(id) == pc = "agents" /\ agent_index = id

\* A Knowledge Source has set the stored position of the agent to a cell other
\* than the one the agent keeps locally.
PositionSetByKnowledgeSource(id) == agents[id].position # fumigators[id].position

\* A Knowledge Source has cleared the stored current_task_id of the agent,
\* which still keeps a task locally.
TaskClearedByKnowledgeSource(id) ==
  /\ agents[id].current_task_id = NoTask
  /\ fumigators[id].current_task_id # NoTask

\* C20: the stored state of an agent is authoritative: a position set or a
\* current_task_id cleared by a Knowledge Source is not overwritten, by the
\* agent's next report, with the value the agent kept locally before its step.
ReportKeepsKnowledgeSourceValues ==
  [][\A id \in DOMAIN agents :
       Reports(id) =>
         /\ PositionSetByKnowledgeSource(id)
              => agents'[id].position # fumigators[id].position
         /\ TaskClearedByKnowledgeSource(id)
              => agents'[id].current_task_id # fumigators[id].current_task_id]_vars

\* The step of ConflictResolverKS resets the agent, which holds a task: after
\* it the stored agent is idle and holds none.
ForceReset(id) ==
  /\ Visiting("ConflictResolverKS")
  /\ agents[id].current_task_id \in DOMAIN tasks
  /\ agents'[id].status = "idle"
  /\ agents'[id].current_task_id = NoTask

\* The conflict_detected events of the agent in an event list.
ConflictEvents(es, id) ==
  {k \in DOMAIN es : es[k].event_type = "conflict_detected" /\ es[k].agent_id = id}

\* The task is changed once by the reset: one more failure, no assignee,
\* pending below the cap and failed from the cap on.
HeldTaskFailedOnce(t) ==
  /\ tasks'[t].failure_count = tasks[t].failure_count + 1
  /\ tasks'[t].assigned_agent_id = NoAgent
  /\ tasks'[t].status = IF tasks'[t].failure_count < FailureCap THEN "pending" ELSE "failed"

\* C21: every force-reset of an agent that holds a task leaves the agent idle
\* with task, path and command cleared, fails the held task exactly once
\* (failure_count + 1, no assignee, pending below the cap, failed otherwise)
\* and emits a conflict_detected event for the agent.
ForceResetFailsHeldTaskOnce ==
  [][\A id \in DOMAIN agents :
       ForceReset(id) =>
         /\ agents'[id].path = <<>>
         /\ shared'[id] = NoCommand
         /\ HeldTaskFailedOnce(agents[id].current_task_id)
         /\ Cardinality(ConflictEvents(events', id)) > Cardinality(ConflictEvents(events, id))]_vars

\* What the loop over the stuck agents of _handle_stuck_agents starts from
\* when ConflictResolverKS is visited in the current state.
LadderInput ==
  stuck_agents_left(handle_failed_tasks(ConflictResolver_check_preconditions(Pack).M))

\* The state in which the loop reaches the n-th stuck agent.
LadderBefore(n) == handle_stuck_loop(LadderInput.M, LadderInput.stuck_agents, n - 1)

\* The step of ConflictResolverKS makes a recovery attempt for the n-th stuck
\* agent: execute() runs and no earlier pass of the loop has left the handler.
RecoveryAttempt(n) ==
  /\ Executes("ConflictResolverKS")
  /\ n \in DOMAIN LadderInput.stuck_agents
  /\ ~LadderBefore(n).returned

\* The consecutive attempts made for the agent, this one included.
AttemptNumber(n) ==
  LadderBefore(n).M.recalculation_attempts[LadderInput.stuck_agents[n]] + 1

\* A new path to the task the agent holds exists.
RecalculationSucceeds(n) ==
  recalculate_path(LadderBefore(n).M, LadderInput.stuck_agents[n]).found

\* The agent is on its way to the barn and the cell one step closer is free.
DirectStepSucceeds(n) ==
  LET B == LadderBefore(n).M
      id == LadderInput.stuck_agents[n]
  IN /\ B.agents[id].status = "returning_to_barn"
     /\ B.shared[id].action = "refill_pesticide"
     /\ position_free(B, id, direct_step(B.agents[id].position, B.shared[id].barn_position))

\* After the step the agent is reset: idle, no task, no path, no command.
ResetToIdle(id) ==
  /\ agents'[id].status = "idle"
  /\ agents'[id].current_task_id = NoTask
  /\ agents'[id].path = <<>>
  /\ shared'[id] = NoCommand

\* C22: a recovery attempt for a stuck agent that is not reset as a member of
\* a deadlock pair follows the ladder: the agent is reset to idle when this is
\* its second consecutive attempt; before that it keeps its task with a new
\* path when the recalculation succeeds, else it is moved one step towards the
\* barn when the direct step succeeds, and it is reset only when both failed.
RecoveryFollowsLadder ==
  [][\A n \in DOMAIN agents :
       RecoveryAttempt(n) =>
         LET id == LadderInput.stuck_agents[n]
         IN IF AttemptNumber(n) >= MaxRecalculationAttempts THEN ResetToIdle(id)
            ELSE IF RecalculationSucceeds(n)
            THEN /\ agents'[id].current_task_id = agents[id].current_task_id
                 /\ agents'[id].position = agents[id].position
                 /\ agents'[id].path # <<>>
            ELSE IF DirectStepSucceeds(n)
            THEN /\ agents'[id].position
                      = direct_step(agents[id].position, shared[id].barn_position)
                 /\ agents'[id].status = "returning_to_barn"
            ELSE ResetToIdle(id)]_vars

\* A stuck agent has just been reset to idle by the ladder.
WitnessStuckAgentReset ==
  /\ pc \in {"cycle", "agents"}
  /\ \E k \in DOMAIN events :
       /\ events[k].event_type = "conflict_detected"
       /\ events[k].timestamp = total_steps
       /\ agents[events[k].agent_id].status = "idle"
       /\ shared[events[k].agent_id] = NoCommand

\* ConflictResolverKS.execute runs in this step.
ConflictResolverExecutes == Executes("ConflictResolverKS")

\* The task is failed and may still be recycled.
FailedBelowCap(t) == tasks[t].status = "failed" /\ tasks[t].failure_count < FailureCap

\* C23: after an execution of ConflictResolverKS every task that was failed
\* with a failure_count below the cap has one more failure, no assignee and a
\* refreshed last_failure_at, and is pending, or failed when the new count
\* reaches the cap; no task is left failed with a failure_count below the cap.
FailedTasksRecycled ==
  [][ConflictResolverExecutes =>
       /\ \A t \in DOMAIN tasks :
            FailedBelowCap(t) =>
              /\ tasks'[t].failure_count = tasks[t].failure_count + 1
              /\ tasks'[t].assigned_agent_id = NoAgent
              /\ tasks'[t].last_failure_at = total_steps
              /\ tasks'[t].status
                   = IF tasks'[t].failure_count >= FailureCap THEN "failed" ELSE "pending"
       /\ \A t \in DOMAIN tasks' :
            ~(tasks'[t].status = "failed" /\ tasks'[t].failure_count < FailureCap)]_vars

\* A failed task has just been recycled to pending, and another has just
\* reached the cap.
WitnessRecycledAndCapped ==
  /\ pc \in {"cycle", "agents"}
  /\ \E t \in DOMAIN tasks :
       /\ tasks[t].status = "pending"
       /\ tasks[t].last_failure_at = total_steps
       /\ tasks[t].failure_count \in 1..(FailureCap - 1)
  /\ \E t \in DOMAIN tasks :
       /\ tasks[t].status = "failed"
       /\ tasks[t].failure_count = FailureCap

\* C24: a task whose failure_count has reached the cap of 5 is failed in every
\* state from then on: it is never pending, assigned, in progress or
\* completed, so TaskAllocatorKS never assigns it and no agent works on it.
TaskAtCapIsFailed ==
  \A t \in DOMAIN tasks :
    tasks[t].failure_count >= FailureCap => tasks[t].status = "failed"

\* The idle agents and the assignable tasks of the current state.
AgentPool ==
  {get_idle_agents(Pack)[k] : k \in DOMAIN get_idle_agents(Pack)}
TaskPool ==
  {get_assignable_tasks(Pack)[k] : k \in DOMAIN get_assignable_tasks(Pack)}

\* The pairs the step assigns: the task turns assigned, to that agent.
AssignedInStep ==
  {pr \in (DOMAIN agents) \X (DOMAIN tasks) :
     /\ tasks[pr[2]].status = "pending"
     /\ tasks'[pr[2]].status = "assigned"
     /\ tasks'[pr[2]].assigned_agent_id = pr[1]
     /\ agents'[pr[1]].current_task_id = pr[2]}

\* The pair costs no more than any feasible pair of the agents and tasks
\* left when the pairs before position k are taken out of the pools.
MinimumWhenChosen(A, k) ==
  \A a \in AgentPool \ {A[j][1] : j \in 1..(k - 1)} :
    \A t \in TaskPool \ {A[j][2] : j \in 1..(k - 1)} :
      Feasible(Pack, a, t) => ~CostLess(Cost(Pack, a, t), Cost(Pack, A[k][1], A[k][2]))

IsNearestBarn(b, position) ==
  /\ \E k \in DOMAIN barn_positions(world) : barn_positions(world)[k] = b
  /\ \A k \in DOMAIN barn_positions(world) :
       Abs(position[1] - b[1]) + Abs(position[2] - b[2])
         <= Abs(position[1] - barn_positions(world)[k][1])
            + Abs(position[2] - barn_positions(world)[k][2])

SentToRefillUrgently(id) ==
  /\ agents'[id].status = "returning_to_barn"
  /\ shared'[id].action = "refill_pesticide"
  /\ shared'[id].urgent
  /\ IsNearestBarn(shared'[id].barn_position, agents[id].position)

\* C26: when ResourceManagerKS executes, every fumigator whose pesticide is
\* at or below the critical threshold ends the execution with status
\* returning_to_barn and an urgent refill command to a barn of least
\* Manhattan distance, whatever its status was.
CriticalLevelForcesRefill ==
  [][Executes("ResourceManagerKS") =>
       \A id \in DOMAIN agents :
         agents[id].pesticide_level <= critical_pesticide_threshold
           => SentToRefillUrgently(id)]_vars

\* A fumigator at the critical level was sent to a barn that is not the first
\* of the list, by an urgent command of this tick.
WitnessCriticalRefill ==
  /\ pc \in {"cycle", "agents"}
  /\ \E k \in DOMAIN events :
       /\ events[k].event_type = "agent_low_resource"
       /\ events[k].timestamp = total_steps
       /\ agents[events[k].agent_id].pesticide_level <= critical_pesticide_threshold
       /\ agents[events[k].agent_id].status = "returning_to_barn"
       /\ shared[events[k].agent_id].action = "refill_pesticide"
       /\ shared[events[k].agent_id].urgent
       /\ shared[events[k].agent_id].barn_position # barn_positions(world)[1]

\* The fumigator holds a task that needs more pesticide than it has left.
HeldTaskExceedsLevel(id) ==
  /\ agents[id].current_task_id \in DOMAIN tasks
  /\ agents[id].pesticide_level < tasks[agents[id].current_task_id].infestation_level

\* C27: when ResourceManagerKS executes and a fumigator holds a task whose
\* infestation_level exceeds the fumigator's pesticide level, the task ends
\* pending with no assignee, the fumigator holds no task and is sent to a barn
\* by a refill command, and the task's failure_count is what it was.
ShortfallCancelsHeldTask ==
  [][Executes("ResourceManagerKS") =>
       \A id \in DOMAIN agents :
         HeldTaskExceedsLevel(id) =>
           /\ tasks'[agents[id].current_task_id].status = "pending"
           /\ tasks'[agents[id].current_task_id].assigned_agent_id = NoAgent
           /\ tasks'[agents[id].current_task_id].failure_count
                = tasks[agents[id].current_task_id].failure_count
           /\ agents'[id].current_task_id = NoTask
           /\ agents'[id].status = "returning_to_barn"
           /\ shared'[id].action = "refill_pesticide"]_vars

\* A fumigator above the critical level has lost a task that had been assigned
\* and had failed before: the task is pending again, with the same count, and
\* the fumigator is on its way to a barn.
WitnessHeldTaskCancelled ==
  /\ "ResourceManagerKS" \in executed_ks_this_cycle
  /\ \E id \in DOMAIN agents, t \in DOMAIN tasks :
       /\ agents[id].pesticide_level > critical_pesticide_threshold
       /\ agents[id].pesticide_level < tasks[t].infestation_level
       /\ agents[id].current_task_id = NoTask
       /\ agents[id].status = "returning_to_barn"
       /\ shared[id].action = "refill_pesticide"
       /\ shared[id].urgent
       /\ tasks[t].status = "pending"
       /\ tasks[t].assigned_at # NoTime
       /\ tasks[t].assigned_agent_id = NoAgent
       /\ tasks[t].failure_count > 0

\* The cost of entering a passable cell, in units of 1/WeightUnit: 1.0 for a
\* road or a barn, 10.0 plus the dynamic weight for a field.
EntryCost(p) ==
  IF Tile(world, p) = FIELD
  THEN 10 * WeightUnit
       + (IF field_weights[p] = 0 THEN 0
          ELSE IF FieldWeightUncapped(field_weights[p]) > 100 * WeightUnit
          THEN 100 * WeightUnit
          ELSE FieldWeightUncapped(field_weights[p]))
  ELSE WeightUnit

\* One round of relaxation: known is the set of <<cell, cost>> of the cells
\* reached so far with the least cost found for each.
RelaxOnce(known) ==
  With(known \cup UNION {{<<q, pr[2] + EntryCost(q)>> :
                            q \in {n \in get_neighbors(world, pr[1]) :
                                     Tile(world, n) # IMPASSABLE}} : pr \in known},
       LAMBDA found :
         {pr \in found : \A other \in found : other[1] = pr[1] => pr[2] <= other[2]})

RECURSIVE Relax(_, _)
Relax(known, n) ==
  IF n = 0 THEN known ELSE With(RelaxOnce(known), LAMBDA relaxed : Relax(relaxed, n - 1))

\* The <<cell, cost>> pairs of the cells that a walk of 4-adjacent passable
\* cells from start reaches, with the least cost of such a walk.
LeastCosts(start) ==
  IF start \in Cells(world) /\ Tile(world, start) # IMPASSABLE
  THEN Relax({<<start, 0>>}, Cardinality(Cells(world)))
  ELSE {}

RECURSIVE WalkCost(_, _)
\* The sum of the entry costs of the cells after the k-th.
WalkCost(path, k) ==
  IF k >= Len(path) THEN 0 ELSE EntryCost(path[k + 1]) + WalkCost(path, k + 1)

IsWalk(path, start, goal) ==
  /\ path # <<>>
  /\ path[1] = start /\ path[Len(path)] = goal
  /\ \A k \in DOMAIN path : path[k] \in Cells(world) /\ Tile(world, path[k]) # IMPASSABLE
  /\ \A k \in 1..(Len(path) - 1) :
       Abs(path[k][1] - path[k + 1][1]) + Abs(path[k][2] - path[k + 1][2]) = 1

CheapestPathOrNone(start, goal, least) ==
  With(calculate_path(Pack, start, goal), LAMBDA path :
    IF \E pr \in least : pr[1] = goal
    THEN /\ IsWalk(path, start, goal)
         /\ \E pr \in least : pr[1] = goal /\ pr[2] = WalkCost(path, 1)
    ELSE path = <<>>)

\* C28: with the grid and the field weights of the current state, the path
\* search from an agent's position to any cell returns a walk of 4-adjacent
\* cells from the start to the goal without an impassable cell whose cost, the
\* sum of the entry costs of the cells after the start, is the least possible;
\* it returns no path exactly when the start or the goal is not passable or
\* no walk reaches the goal.
DijkstraReturnsCheapestPath ==
  \A id \in DOMAIN agents :
    With(LeastCosts(agents[id].position), LAMBDA least :
      \A goal \in Cells(world) : CheapestPathOrNone(agents[id].position, goal, least))

\* PathPlannerKS has stored a path that is longer than the shortest walk
\* because the fields on the shorter one have been crossed, and another cell
\* of the grid cannot be reached from the agent's position.
WitnessDetourPlanned ==
  /\ "PathPlannerKS" \in executed_ks_this_cycle
  /\ \E id \in DOMAIN agents :
       /\ agents[id].path # <<>>
       /\ agents[id].path[1] = agents[id].position
       /\ Len(agents[id].path)
            > 1 + manhattan_distance(agents[id].position,
                                     agents[id].path[Len(agents[id].path)])
       /\ \E p \in Cells(world) : field_weights[p] > 0
       /\ \E goal \in Cells(world) :
            /\ Tile(world, goal) # IMPASSABLE
            /\ calculate_path(Pack, agents[id].position, goal) = <<>>

\* The agent's own position changes to p in this step.
MovesOnto(id, p) ==
  fumigators'[id].position = p /\ fumigators[id].position # p

\* C29: a step in which a fumigator moves onto a FIELD cell, on its way to a
\* task or to a barn, raises the weight of that cell (from 0 to 1.5, otherwise
\* times 1.5, up to the maximum), and a step in which it moves onto a ROAD or
\* BARN cell changes no weight.
EveryFieldEntryRaisesWeight ==
  [][\A id \in DOMAIN fumigators : \A p \in Cells(world) :
       MovesOnto(id, p) =>
         IF Tile(world, p) = FIELD
         THEN field_weights'[p] = (IF field_weights[p] >= MaxWeightSteps THEN MaxWeightSteps
                                   ELSE field_weights[p] + 1)
         ELSE field_weights' = field_weights]_vars

\* What the resolver's execute sees and decides, on the blackboard its
\* check_preconditions left: the failed tasks are handled first, then the
\* positions are sampled and the stuck agents listed.
StuckSample ==
  detect_stuck_agents(handle_failed_tasks(ConflictResolver_check_preconditions(Pack).M))

SampledHistory(id) == StuckSample.M.agent_position_history[id]

FlaggedStuck(id) == \E k \in DOMAIN StuckSample.stuck : StuckSample.stuck[k] = id

\* The agent is in a state in which it is expected to move.
ExpectedToMove(id) ==
  \/ agents[id].current_task_id # NoTask /\ agents[id].path # <<>>
  \/ agents[id].status \in {"moving", "assigned", "executing_task",
                            "returning_to_barn", "waiting"}

\* The last stuck_threshold samples of the agent's position are the same.
UnchangedOverWindow(id) ==
  /\ Len(SampledHistory(id)) >= stuck_threshold
  /\ \A i \in (Len(SampledHistory(id)) - stuck_threshold + 1)..Len(SampledHistory(id)) :
       SampledHistory(id)[i] = SampledHistory(id)[Len(SampledHistory(id))]

\* C30: when the conflict resolver executes, it flags an agent as stuck if and
\* only if the agent's position is unchanged over the history window of
\* stuck_threshold entries and the agent is expected to move (it holds a task
\* with a non-empty path, or its status is moving, assigned, executing_task,
\* returning_to_barn or waiting); an idle agent without a task is never flagged.
StuckIffStillAndExpectedToMove ==
  [][Executes("ConflictResolverKS") =>
       \A id \in DOMAIN agents :
         /\ FlaggedStuck(id) <=> (UnchangedOverWindow(id) /\ ExpectedToMove(id))
         /\ (agents[id].status = "idle" /\ agents[id].current_task_id = NoTask)
              => ~FlaggedStuck(id)]_vars

\* The update from blackboard M1 to blackboard M2 has appended an event of the
\* given type that names the agent.
EmitsForAgent(M1, M2, type, id) ==
  \E k \in (Len(M1.events) + 1)..Len(M2.events) :
    M2.events[k].event_type = type /\ M2.events[k].agent_id = id

\* The same for an event that names the task.
EmitsForTask(M1, M2, type, task_id) ==
  \E k \in (Len(M1.events) + 1)..Len(M2.events) :
    M2.events[k].event_type = type /\ M2.events[k].task_id = task_id

\* The status values update_task is called with.
UpdatedStatuses == {"pending", "assigned", "in_progress", "completed", "failed"}

StatusEvent(status) ==
  CASE status = "assigned" -> "task_assigned"
    [] status = "completed" -> "task_completed"
    [] OTHER -> "task_failed"

\* The update_agent call of the report of the agent whose turn it is.
ReportUpdateEmitsOnChangeOnly(id) ==
  LET M1 == agent_execute(Pack, id)
      updates == reported_state(M1.fumigators[id])
      M2 == update_agent(M1, id, updates)
  IN /\ EmitsForAgent(M1, M2, "agent_moved", id)
          <=> updates.position # M1.agents[id].position
     /\ EmitsForAgent(M1, M2, "agent_idle", id)
          <=> (updates.status = "idle" /\ M1.agents[id].status # "idle")
     /\ (updates.position = M1.agents[id].position /\ updates.status = M1.agents[id].status)
          => M2.events = M1.events

\* C31: update_agent emits agent_moved exactly when the update changes the
\* agent's position and agent_idle exactly when it changes the status from a
\* value other than idle to idle, an update that changes neither emits no
\* event, and update_task emits task_assigned, task_completed or task_failed
\* exactly when the task's status changes to that value.
UpdatesEmitExactlyOnChange ==
  /\ (pc = "agents" /\ agent_index \in DOMAIN agents /\ Len(events) < max_events - 2)
       => ReportUpdateEmitsOnChangeOnly(agent_index)
  /\ \A task_id \in DOMAIN tasks : \A status \in UpdatedStatuses :
       \A changed \in {"assigned", "completed", "failed"} :
         EmitsForTask(Pack, update_task(Pack, task_id, [status |-> status]),
                      StatusEvent(changed), task_id)
           <=> (status = changed /\ tasks[task_id].status # changed)

\* The field_discovered events on the blackboard, by their place in the event
\* list, and those of them get_recent_events hands to the task planner.
DiscoveryEvents == {i \in DOMAIN events : events[i].event_type = "field_discovered"}

RecentDiscoveries ==
  {i \in DiscoveryEvents :
     Cardinality({j \in DiscoveryEvents : j > i}) < DiscoveryEventsLimit}

\* The task planner's loop takes the discoveries oldest first, so a task it
\* creates at position p comes from the oldest discovery of p it is handed.
CreatingDiscovery(p) ==
  CHOOSE i \in RecentDiscoveries :
    /\ events[i].position = p
    /\ events[i].infestation >= planner_min_infestation
    /\ \A j \in RecentDiscoveries :
         (events[j].position = p /\ events[j].infestation >= planner_min_infestation)
           => i <= j

\* An earlier execution of the task planner has gone through the discovery: a
\* task was created after the discovery was emitted, and only the planner
\* creates tasks after construction.
AlreadyProcessed(i) ==
  \E j \in (i + 1)..Len(events) : events[j].event_type = "task_created"

CompletedTaskNeverChanges ==
  [][\A task_id \in DOMAIN tasks :
       tasks[task_id].status = "completed" =>
         /\ tasks'[task_id].status = "completed"
         /\ tasks'[task_id].assigned_agent_id = tasks[task_id].assigned_agent_id
         /\ tasks'[task_id].failure_count = tasks[task_id].failure_count]_vars

\* The agent has the task as its stored current_task_id, or its command slot
\* holds an execute_task command that names the task.
WorksOn(id, task_id) ==
  \/ agents[id].current_task_id = task_id
  \/ shared[id].action = "execute_task" /\ shared[id].task_id = task_id

\* C34: at no time are two different agents working on the same task: for
\* every task, at most one agent has it as current_task_id or holds an
\* execute_task command naming it, also after the task was released to pending
\* and assigned to a second agent.
OneAgentPerTask ==
  \A task_id \in DOMAIN tasks : \A a, b \in DOMAIN agents :
    (WorksOn(a, task_id) /\ WorksOn(b, task_id)) => a = b

\* The agent is about to step, and the command it will read is an
\* execute_task command for a task that a path leads to from where it stands.
ReadsReachableTask(id) ==
  /\ pc = "agents" /\ agent_index = id
  /\ shared[id].action = "execute_task"
  /\ calculate_path(Pack, agents[id].position, shared[id].task_position) # <<>>

\* C35: when TaskAllocatorKS assigns a task in a control cycle, PathPlannerKS
\* computes and stores the agent's path in that same cycle, before the agents
\* step: no agent reads an execute_task command for a reachable task while
\* its stored path is empty, so that no freshly assigned task is marked
\* failed for lack of a path, the first assignment of a run included.
AssignedTaskHasPathBeforeAgentSteps ==
  \A id \in DOMAIN agents : ReadsReachableTask(id) => agents[id].path # <<>>

\* The agent's history with one sample of its position added, kept to the
\* length the resolver keeps.
OneSample(id) ==
  LET appended == Append(agent_position_history[id], agents[id].position)
  IN IF Len(appended) > stuck_threshold * 2 THEN Tail(appended) ELSE appended

\* The task the agent holds was assigned to it in the current cycle.
AssignedThisCycle(id) ==
  /\ agents[id].current_task_id \in DOMAIN tasks
  /\ tasks[agents[id].current_task_id].assigned_agent_id = id
  /\ tasks[agents[id].current_task_id].assigned_at = total_steps

\* C36: the conflict resolver records exactly one position sample per agent
\* per tick: a cycle in which its preconditions are checked, and in which it
\* may then execute, leaves each history with one sample more (or emptied by a
\* recovery), never two, and an agent assigned a task in the current cycle is
\* not flagged stuck in that cycle.
OnePositionSamplePerTick ==
  [][(Visiting("ConflictResolverKS") /\ Reached("ConflictResolverKS")) =>
       \A id \in DOMAIN agents :
         /\ agent_position_history'[id] \in {<<>>, OneSample(id)}
         /\ (Executes("ConflictResolverKS") /\ AssignedThisCycle(id))
              => ~FlaggedStuck(id)]_vars

\* C37: when several agents are flagged stuck in one execution of the
\* conflict resolver, every one of them that is not reset as a member of a
\* deadlock pair receives a recovery attempt in that execution: the successful
\* recovery of one stuck agent does not make the handler skip the others.
EveryStuckAgentGetsRecovery ==
  [][Executes("ConflictResolverKS") =>
       \A n \in DOMAIN LadderInput.stuck_agents : ~LadderBefore(n).returned]_vars

\* ------------------------------------------------------------------------
\* C38

\* A worker holds the command to return to the depot, and the barn the
\* command names can be reached from the cell the worker stands on.
ReturnCommanded(id) ==
  /\ shared[id].action = "refill_pesticide"
  /\ \/ fumigators[id].position = shared[id].barn_position
     \/ calculate_path(Pack, fumigators[id].position, shared[id].barn_position) # <<>>

\* What a step leaves when it was the refill at the depot: the worker on a
\* barn, its tank at capacity, idle, no command, and agent_refilled emitted.
RefilledAtDepot(id) ==
  /\ \E k \in DOMAIN barn_positions(world) :
       barn_positions(world)[k] = fumigators'[id].position
  /\ fumigators'[id].pesticide_level = pesticide_capacity
  /\ fumigators'[id].status = "idle"
  /\ shared'[id] = NoCommand
  /\ \E k \in (Len(events) + 1)..Len(events') :
       events'[k].event_type = "agent_refilled" /\ events'[k].agent_id = id

\* C38: a worker commanded to return to the depot, with a passable route to
\* it, keeps the command until it has reached a depot cell; the command leaves
\* it only through the refill there, which fills the tank to exactly the
\* capacity, makes the worker idle and emits agent_refilled. No other step
\* ends the return, so the worker is never left without the refill.
ReturnCommandEndsOnlyInRefill ==
  [][\A id \in DOMAIN agents :
       (ReturnCommanded(id) /\ shared'[id].action # "refill_pesticide")
         => RefilledAtDepot(id)]_vars

\* ------------------------------------------------------------------------
\* C40

\* ConflictResolverKS executes and writes another position for the agent:
\* the only positions it writes are those of the direct step of
\* _handle_stuck_agents and of _handle_waiting_agents.
DirectStepTaken(id) ==
  /\ Executes("ConflictResolverKS")
  /\ agents'[id].position # agents[id].position

\* C40: a recovery direct step moves the agent only onto a cell that is
\* inside the grid, passable, adjacent to the cell it stood on, strictly
\* closer to the barn of its command by Manhattan distance and not occupied
\* by another agent; a step of ConflictResolverKS that finds no such cell
\* leaves the agent's position unchanged.
DirectStepOntoFreePassableCloserCell ==
  [][\A id \in DOMAIN agents :
       DirectStepTaken(id) =>
         LET from == agents[id].position
             to == agents'[id].position
             barn == shared[id].barn_position
         IN /\ InBounds(world, to)
            /\ is_passable(world, to)
            /\ manhattan_distance(from, to) = 1
            /\ manhattan_distance(to, barn) < manhattan_distance(from, barn)
            /\ \A other \in DOMAIN agents :
                 other = id \/ agents[other].position # to]_vars

\* ------------------------------------------------------------------------
\* C39

\* The infestation the step takes from the cell, and from the whole grid.
InfestationRemoved(p) == infestation[p] - infestation'[p]

TotalInfestationRemoved ==
  SumTo(LAMBDA k : InfestationRemoved(ScanOrder(world)[k + 1]),
        Len(ScanOrder(world)) - 1)

\* The step is the refill of the agent at the barn of its command.
RefillAtDepot(id) ==
  /\ Reports(id)
  /\ shared[id].action = "refill_pesticide"
  /\ fumigators[id].position = shared[id].barn_position
  /\ Tile(world, fumigators[id].position) = BARN
  /\ fumigators'[id].pesticide_level = pesticide_capacity

\* The step is the agent's own, it empties every cell it treats, it had at
\* least the infestation of each in its tank, and the tank goes down by
\* exactly what leaves the grid.
TreatmentPaidExactly(id) ==
  /\ Reports(id)
  /\ fumigators[id].pesticide_level - fumigators'[id].pesticide_level
       = TotalInfestationRemoved
  /\ \A p \in DOMAIN infestation :
       InfestationRemoved(p) # 0 =>
         /\ infestation'[p] = 0
         /\ infestation[p] <= fumigators[id].pesticide_level

\* C39: the pesticide level of a fumigator stays within 0..pesticide_capacity;
\* a cell is treated only by an agent whose level is at least the cell's
\* infestation, the treatment lowers the level by exactly the infestation
\* removed, and the level rises only in the refill at a barn, to the capacity.
LevelBoundedPaidExactlyRaisedOnlyByRefill ==
  [][/\ \A id \in DOMAIN fumigators :
          LET before == fumigators[id].pesticide_level
              after == fumigators'[id].pesticide_level
          IN /\ before \in 0..pesticide_capacity
             /\ after \in 0..pesticide_capacity
             /\ agents'[id].pesticide_level \in 0..pesticide_capacity
             /\ after > before => RefillAtDepot(id)
             /\ after < before => TreatmentPaidExactly(id)
             /\ (Reports(id) /\ after >= before) => TotalInfestationRemoved = 0
     /\ pc # "agents" => TotalInfestationRemoved = 0]_vars

\* A fumigator that has treated fields and gone below the capacity stands on
\* a barn again with a full tank: it has paid for treatments and was refilled.
WitnessTreatedThenRefilled ==
  \E id \in DOMAIN fumigators :
    /\ fumigators[id].fields_fumigated > 0
    /\ fumigators[id].pesticide_level = pesticide_capacity
    /\ Tile(world, fumigators[id].position) = BARN
    /\ \E k \in DOMAIN events :
         events[k].event_type = "agent_refilled" /\ events[k].agent_id = id

====
